---------------------------- MODULE Spec2Model ----------------------------
(***************************************************************************)
(* Model of the reflection-driven form/invocation bridge of MAST           *)
(* (mast/plugin_utils/plugin_functions.py): get_form, call_method,         *)
(* _call_method and handle.                                                *)
(*                                                                         *)
(* Python strings are sequences of one-character strings, so that int(),   *)
(* the substring test, os.path.join and str() are computed and not         *)
(* assumed.  A Python value is a record [t, b, n, s, l]: t is the type     *)
(* name, and b, n, s, l hold the value of a bool, an int, a str (or the    *)
(* text of a float) and a list of str.                                     *)
(***************************************************************************)
EXTENDS Integers, Sequences, FiniteSets, TLC

(***************************************************************************)
(* Bounds of the model.                                                    *)
(***************************************************************************)
MaxEdited == 1      \* fields of a submission that differ from the rendered form
MaxClock == 1       \* the clock runs from 0 to MaxClock
MaxRand == 2        \* distinct random suffixes drawn by _call_method

(***************************************************************************)
(* String literals of the source.                                          *)
(***************************************************************************)
s_empty == << >>
s_web == <<"w","e","b">>
s_appliances == <<"a","p","p","l","i","a","n","c","e","s">>
s_credentials == <<"c","r","e","d","e","n","t","i","a","l","s">>
s_out_dir == <<"o","u","t","_","d","i","r">>
s_out_file == <<"o","u","t","_","f","i","l","e">>
s_file_in == <<"f","i","l","e","_","i","n">>
s_StatusProvider == <<"S","t","a","t","u","s","P","r","o","v","i","d","e","r">>
s_ObjectClass == <<"O","b","j","e","c","t","C","l","a","s","s">>
s_password == <<"p","a","s","s","w","o","r","d">>
s_true == <<"t","r","u","e">>
s_tmp == <<"t","m","p">>
s_callable == <<"c","a","l","l","a","b","l","e">>
s_brackets == <<"[","]">>
s_Domain == <<"D","o","m","a","i","n">>
s_XMLManager == <<"X","M","L","M","a","n","a","g","e","r">>

\* other names and values used by the catalog and the submissions
s_timeout == <<"t","i","m","e","o","u","t">>
s_no_check_hostname == <<"n","o","_","c","h","e","c","k","_","h","o","s","t","n","a","m","e">>
s_domains == <<"d","o","m","a","i","n","s">>
s_delay == <<"d","e","l","a","y">>
s_date_time_format == <<"d","a","t","e","_","t","i","m","e","_","f","o","r","m","a","t">>
s_localtime == <<"l","o","c","a","l","t","i","m","e">>
s_days_only == <<"d","a","y","s","_","o","n","l","y">>
s_new_password == <<"n","e","w","_","p","a","s","s","w","o","r","d">>
s_Password == <<"P","a","s","s","w","o","r","d">>
s_comment == <<"c","o","m","m","e","n","t">>
s_force == <<"f","o","r","c","e">>
s_retries == <<"r","e","t","r","i","e","s">>
s_options == <<"o","p","t","i","o","n","s">>
s_on == <<"o","n">>
s_abc == <<"a","b","c">>
s_dp1 == <<"d","p","1">>
s_dp2 == <<"d","p","2">>
s_cert_audit_xlsx == <<"t","m","p","/","c","e","r","t","-","a","u","d","i","t",".","x","l","s","x">>
s_fmt_default == <<"%","A",","," ","%","B"," ","%","d",","," ","%","Y",","," ","%","X">>
s_half == <<"0",".","5">>
s_evil == <<"/","e","t","c","/","p","w">>

(***************************************************************************)
(* Python values.                                                          *)
(***************************************************************************)
PyVal(t, b, n, s, l) == [t |-> t, b |-> b, n |-> n, s |-> s, l |-> l]
PyNone == PyVal("NoneType", FALSE, 0, << >>, << >>)
PyBool(b) == PyVal("bool", b, 0, << >>, << >>)
PyInt(n) == PyVal("int", FALSE, n, << >>, << >>)
PyStr(s) == PyVal("str", FALSE, 0, s, << >>)
PyFloat(s) == PyVal("float", FALSE, 0, s, << >>)
PyList(l) == PyVal("list", FALSE, 0, << >>, l)
PyTuple(l) == PyVal("tuple", FALSE, 0, << >>, l)

\* isinstance(v, cls): bool is a subclass of int
isinstance(v, cls) ==
    \/ v.t = cls
    \/ cls = "int" /\ v.t = "bool"

\* the truth value Python gives a value in `x or y` and `if x`
Truthy(v) ==
    CASE v.t = "NoneType" -> FALSE
      [] v.t = "bool" -> v.b
      [] v.t = "int" -> v.n # 0
      [] v.t = "str" -> v.s # << >>
      [] v.t = "float" -> TRUE
      [] OTHER -> v.l # << >>

\* x or y
PyOr(x, y) == IF Truthy(x) THEN x ELSE y

(***************************************************************************)
(* str methods.                                                            *)
(***************************************************************************)
\* sub in s
Contains(s, sub) ==
    \E i \in 0..(Len(s) - Len(sub)) :
        \A j \in 1..Len(sub) : s[i + j] = sub[j]

Digits == <<"0","1","2","3","4","5","6","7","8","9">>
IsDigit(c) == \E d \in 1..10 : Digits[d] = c
DigitVal(c) == (CHOOSE d \in 1..10 : Digits[d] = c) - 1

RECURSIVE StripLeft(_)
StripLeft(s) == IF s # << >> /\ Head(s) = " " THEN StripLeft(Tail(s)) ELSE s
RECURSIVE StripRight(_)
StripRight(s) ==
    IF s # << >> /\ s[Len(s)] = " " THEN StripRight(SubSeq(s, 1, Len(s) - 1)) ELSE s
Strip(s) == StripRight(StripLeft(s))

RECURSIVE DigitsValue(_, _)
DigitsValue(s, acc) ==
    IF s = << >> THEN acc ELSE DigitsValue(Tail(s), 10 * acc + DigitVal(Head(s)))

\* int(x) for a str or None x: [exc, n]
int(x) ==
    IF x.t = "NoneType" THEN [exc |-> "TypeError", n |-> 0]
    ELSE LET body == Strip(x.s)
             signed == body # << >> /\ Head(body) \in {"-", "+"}
             digs == IF signed THEN Tail(body) ELSE body
         IN IF digs = << >> \/ \E i \in 1..Len(digs) : ~IsDigit(digs[i])
            THEN [exc |-> "ValueError", n |-> 0]
            ELSE [exc |-> "none",
                  n |-> IF signed /\ Head(body) = "-"
                        THEN 0 - DigitsValue(digs, 0)
                        ELSE DigitsValue(digs, 0)]

RECURSIVE NatToStr(_)
NatToStr(n) ==
    IF n < 10 THEN <<Digits[n + 1]>>
    ELSE NatToStr(n \div 10) \o <<Digits[(n % 10) + 1]>>
\* str(n) for an int n
IntToStr(n) == IF n < 0 THEN <<"-">> \o NatToStr(0 - n) ELSE NatToStr(n)

\* os.path.join(a, b) for relative b
PathJoin(a, b) == a \o <<"/">> \o b


(***************************************************************************)
(* The command catalog: module.cli._command_list, flattened in iteration   *)
(* order.  A command declares its parameter names (args) and the defaults  *)
(* of its trailing parameters (defaults), as inspect.getfullargspec        *)
(* reports them.                                                           *)
(***************************************************************************)
s_cert_audit == <<"c","e","r","t","_","a","u","d","i","t">>
s_export_certs == <<"e","x","p","o","r","t","_","c","e","r","t","s">>
s_set_options == <<"s","e","t","_","o","p","t","i","o","n","s">>
s_fetch_status == <<"f","e","t","c","h","_","s","t","a","t","u","s">>
s_local_report == <<"l","o","c","a","l","_","r","e","p","o","r","t">>
s_list_hosts == <<"l","i","s","t","_","h","o","s","t","s">>
s_zip_local == <<"z","i","p","_","l","o","c","a","l">>
s_audit == <<"a","u","d","i","t">>
s_annotate == <<"a","n","n","o","t","a","t","e">>
s_tag_hosts == <<"t","a","g","_","h","o","s","t","s">>
s_upload_file == <<"u","p","l","o","a","d","_","f","i","l","e">>
s_export_report == <<"e","x","p","o","r","t","_","r","e","p","o","r","t">>
s_missing == <<"m","i","s","s","i","n","g">>
s_report_xlsx == <<"r","e","p","o","r","t",".","x","l","s","x">>

Command(name, args, defaults) == [name |-> name, args |-> args, defaults |-> defaults]

\* mast/datapower/crypto/__init__.py: cert_audit
cert_audit ==
    Command(s_cert_audit,
        <<s_appliances, s_credentials, s_timeout, s_no_check_hostname, s_domains,
          s_out_file, s_delay, s_date_time_format, s_localtime, s_days_only, s_web>>,
        <<PyList(<< >>), PyList(<< >>), PyInt(120), PyBool(FALSE), PyList(<< >>),
          PyStr(s_cert_audit_xlsx), PyFloat(s_half), PyStr(s_fmt_default),
          PyBool(FALSE), PyBool(FALSE), PyBool(FALSE)>>)

\* mast/datapower/crypto/__init__.py: export_certs
export_certs ==
    Command(s_export_certs,
        <<s_appliances, s_credentials, s_timeout, s_no_check_hostname, s_domains,
          s_out_dir, s_delay, s_web>>,
        <<PyList(<< >>), PyList(<< >>), PyInt(120), PyBool(FALSE), PyList(<< >>),
          PyStr(s_tmp), PyFloat(s_half), PyBool(FALSE)>>)

\* commands of the other plugins served by handle, by parameter shape
set_options ==
    Command(s_set_options,
        <<s_appliances, s_credentials, s_Domain, s_StatusProvider, s_ObjectClass,
          s_options, s_new_password, s_force, s_web>>,
        <<PyList(<< >>), PyList(<< >>), PyList(<< >>), PyList(<< >>), PyList(<< >>),
          PyList(<< >>), PyStr(s_empty), PyBool(TRUE), PyBool(FALSE)>>)

fetch_status ==
    Command(s_fetch_status,
        <<s_appliances, s_XMLManager, s_StatusProvider, s_ObjectClass, s_Password,
          s_comment, s_file_in, s_out_file, s_retries, s_web>>,
        <<PyList(<< >>), PyStr(s_empty), PyStr(s_empty), PyStr(s_empty), PyStr(s_abc),
          PyNone, PyNone, PyNone, PyInt(5), PyBool(TRUE)>>)

local_report ==
    Command(s_local_report,
        <<s_out_file, s_retries, s_options, s_web>>,
        <<PyStr(s_cert_audit_xlsx), PyInt(0), PyTuple(<< >>), PyBool(FALSE)>>)

list_hosts ==
    Command(s_list_hosts,
        <<s_appliances, s_comment>>,
        <<PyList(<< >>), PyStr(s_abc)>>)

zip_local ==
    Command(s_zip_local,
        <<s_out_dir, s_web>>,
        <<PyStr(s_tmp), PyBool(FALSE)>>)

\* a command whose descriptor is {out_file: "report.xlsx"}
audit ==
    Command(s_audit, <<s_out_file>>, <<PyStr(s_report_xlsx)>>)

\* a command that writes a directory and a report
export_report ==
    Command(s_export_report,
        <<s_appliances, s_out_dir, s_out_file, s_web>>,
        <<PyList(<< >>), PyStr(s_tmp), PyStr(s_cert_audit_xlsx), PyBool(FALSE)>>)

\* a command whose parameters all get a checkbox, a textbox or a multi-value
\* textbox
annotate ==
    Command(s_annotate,
        <<s_force, s_localtime, s_comment, s_date_time_format, s_options, s_retries,
          s_timeout>>,
        <<PyBool(TRUE), PyBool(FALSE), PyStr(s_abc), PyStr(s_empty), PyList(<< >>),
          PyInt(5), PyNone>>)

\* a command with a list default that is not empty
tag_hosts ==
    Command(s_tag_hosts,
        <<s_options, s_comment>>,
        <<PyList(<<s_abc>>), PyStr(s_abc)>>)

\* a command whose first parameter declares no default:
\* def upload_file(file_in, comment="abc", web=False)
upload_file ==
    Command(s_upload_file,
        <<s_file_in, s_comment, s_web>>,
        <<PyStr(s_abc), PyBool(FALSE)>>)

command_list ==
    <<cert_audit, export_certs, set_options, fetch_status, local_report, list_hosts,
      zip_local, audit, export_report, annotate, tag_hosts, upload_file>>

Commands == {command_list[i] : i \in 1..Len(command_list)}

\* the parameter names a command declares
DeclaredNames(cmd) == {cmd.args[i] : i \in 1..Len(cmd.args)}

\* list(zip(args, defaults))
zip(args, defaults) ==
    [i \in 1..(IF Len(args) < Len(defaults) THEN Len(args) ELSE Len(defaults)) |->
        [key |-> args[i], value |-> defaults[i]]]

\* _get_arguments(plugin, fn_name): the first command of that name; when none
\* matches, args is unbound at the return statement
Found(fn_name) == {i \in 1..Len(command_list) : command_list[i].name = fn_name}

\* _get_arguments returning the descriptor of the last command it iterated
\* over when none matches
get_arguments_last_item(fn_name) ==
    LET item == IF Found(fn_name) = {}
                THEN command_list[Len(command_list)]
                ELSE command_list[CHOOSE i \in Found(fn_name) :
                                     \A j \in Found(fn_name) : i <= j]
    IN [exc |-> "none",
        arguments |-> zip(item.args, item.defaults),
        func |-> item.name]

\* lines 725-740
get_arguments(fn_name) ==
    IF Found(fn_name) = {}
    THEN [exc |-> "UnboundLocalError", arguments |-> << >>, func |-> s_empty]
    ELSE LET item == command_list[CHOOSE i \in Found(fn_name) :
                                     \A j \in Found(fn_name) : i <= j]
         IN [exc |-> "none",
             arguments |-> zip(item.args, item.defaults),
             func |-> item.name]

\* the command a name resolves to
CommandNamed(fn_name) == CHOOSE c \in Commands : c.name = fn_name

(***************************************************************************)
(* OBJECT_STATUS_ARGS and STATUS_PROVIDERS (the names the model uses).     *)
(***************************************************************************)
OBJECT_STATUS_ARGS == {s_Domain, s_XMLManager}

(***************************************************************************)
(* get_form: one field per parameter, or none.                             *)
(***************************************************************************)
NoOptions == [src |-> "none", appliances |-> << >>]
\* options=STATUS_PROVIDERS, options=OBJECT_STATUS_ARGS, options=env.common_config(key)
StatusProviderOptions == [src |-> "STATUS_PROVIDERS", appliances |-> << >>]
ObjectClassOptions == [src |-> "OBJECT_STATUS_ARGS", appliances |-> << >>]
CommonConfigOptions(env) == [src |-> "common_config", appliances |-> env]

Field(bucket, widget, key, value, checked, options) ==
    [bucket |-> bucket, widget |-> widget, name |-> key, value |-> value,
     checked |-> checked, options |-> options]
NoField == Field("none", "none", s_empty, PyNone, FALSE, NoOptions)

render_textbox(key, value) ==
    Field("textboxes", "textbox", key, value, FALSE, NoOptions)
render_password_box(key, value) ==
    Field("textboxes", "passwordbox", key, value, FALSE, NoOptions)
render_checkbox(key, checked) ==
    Field("checkboxes", "checkbox", key, PyNone, checked, NoOptions)
render_multitext(key) ==
    Field("textboxes", "multitext", key, PyNone, FALSE, NoOptions)
render_file_upload(key) ==
    Field("file_uploads", "fileupload", key, PyNone, FALSE, NoOptions)
render_select_object_status(key, env) ==
    Field("selects", "dynselect", key, PyNone, FALSE, CommonConfigOptions(env))
render_multiselect_object_status(key, env) ==
    Field("selects", "multiselect", key, PyNone, FALSE, CommonConfigOptions(env))
render_multiselect_status_provider(key) ==
    Field("selects", "multiselect", key, PyNone, FALSE, StatusProviderOptions)
render_select_status_provider(key) ==
    Field("selects", "dynselect", key, PyNone, FALSE, StatusProviderOptions)
render_multiselect_object_class(key) ==
    Field("selects", "multiselect", key, PyNone, FALSE, ObjectClassOptions)
render_select_object_class(key) ==
    Field("selects", "dynselect", key, PyNone, FALSE, ObjectClassOptions)

\* form_field_bool without the test of line 848: 'web' gets a checkbox
form_field_bool_web_shown(key, value) ==
    IF value.b THEN render_checkbox(key, TRUE)
    ELSE render_checkbox(key, FALSE)

\* form_field_bool rendering every checkbox unchecked
form_field_bool_never_checked(key, value) ==
    IF key = s_web THEN NoField
    ELSE render_checkbox(key, FALSE)

\* lines 848-855
form_field_bool(key, value) ==
    IF key = s_web THEN NoField
    ELSE IF value.b THEN render_checkbox(key, TRUE)
    ELSE render_checkbox(key, FALSE)

\* form_field_list reading the options of 'StatusProvider' from the
\* appliances as well
form_field_list_provider_from_env(key, env) ==
    IF key = s_appliances \/ key = s_credentials THEN NoField
    ELSE IF key \in OBJECT_STATUS_ARGS THEN render_multiselect_object_status(key, env)
    ELSE IF key = s_StatusProvider THEN render_multiselect_object_status(key, env)
    ELSE IF key = s_ObjectClass THEN render_multiselect_object_class(key)
    ELSE render_multitext(key)

\* lines 857-868
form_field_list(key, env) ==
    IF key = s_appliances \/ key = s_credentials THEN NoField
    ELSE IF key \in OBJECT_STATUS_ARGS THEN render_multiselect_object_status(key, env)
    ELSE IF key = s_StatusProvider THEN render_multiselect_status_provider(key)
    ELSE IF key = s_ObjectClass THEN render_multiselect_object_class(key)
    ELSE render_multitext(key)

\* lines 870-886
form_field_str(key, value, env) ==
    IF key = s_out_dir THEN NoField
    ELSE IF key = s_out_file THEN NoField
    ELSE IF key \in OBJECT_STATUS_ARGS THEN render_select_object_status(key, env)
    ELSE IF key = s_StatusProvider THEN render_select_status_provider(key)
    ELSE IF key = s_ObjectClass THEN render_select_object_class(key)
    ELSE IF Contains(key, s_password) THEN render_password_box(key, value)
    ELSE render_textbox(key, value)

\* lines 890-895
form_field_none(key) ==
    IF key = s_out_file THEN NoField
    ELSE IF key = s_file_in THEN render_file_upload(key)
    ELSE render_textbox(key, PyStr(s_empty))

\* the body of get_form's loop for one (key, value)
FormField(key, value, env) ==
    IF isinstance(value, "bool") THEN form_field_bool(key, value)
    ELSE IF isinstance(value, "list") THEN form_field_list(key, env)
    ELSE IF isinstance(value, "str") THEN form_field_str(key, value, env)
    ELSE IF isinstance(value, "int") THEN render_textbox(key, value)
    ELSE IF value.t = "NoneType" THEN form_field_none(key)
    ELSE NoField

\* the fields get_form collects, in the order of the arguments
FormFields(arguments, env) ==
    [i \in 1..Len(arguments) |-> FormField(arguments[i].key, arguments[i].value, env)]

InBucket(f, b) == f.bucket = b
\* forms.extend(textboxes); extend(selects); extend(file_uploads); extend(checkboxes)
get_form(fn_name, appliances) ==
    LET r == get_arguments(fn_name)
        fs == FormFields(r.arguments, appliances)
        bucket(b) == SelectSeq(fs, LAMBDA f : f.bucket = b)
    IN [exc |-> r.exc,
        form |-> IF r.exc # "none" THEN << >>
                 ELSE bucket("textboxes") \o bucket("selects")
                      \o bucket("file_uploads") \o bucket("checkboxes")]

(***************************************************************************)
(* mast.xor and mast.timestamp, as call_method uses them.                  *)
(***************************************************************************)
\* the 7-bit characters; a control character, a quote, a backslash and a
\* backtick are written by their codes
Ascii ==
    <<
      "x00", "x01", "x02", "x03", "x04", "x05", "x06", "x07",
      "x08", "x09", "x0A", "x0B", "x0C", "x0D", "x0E", "x0F",
      "x10", "x11", "x12", "x13", "x14", "x15", "x16", "x17",
      "x18", "x19", "x1A", "x1B", "x1C", "x1D", "x1E", "x1F",
      " ", "!", "x22", "#", "$", "%", "&", "'",
      "(", ")", "*", "+", ",", "-", ".", "/",
      "0", "1", "2", "3", "4", "5", "6", "7",
      "8", "9", ":", ";", "<", "=", ">", "?",
      "@", "A", "B", "C", "D", "E", "F", "G",
      "H", "I", "J", "K", "L", "M", "N", "O",
      "P", "Q", "R", "S", "T", "U", "V", "W",
      "X", "Y", "Z", "[", "x5C", "]", "^", "_",
      "x60", "a", "b", "c", "d", "e", "f", "g",
      "h", "i", "j", "k", "l", "m", "n", "o",
      "p", "q", "r", "s", "t", "u", "v", "w",
      "x", "y", "z", "{", "|", "}", "~", "x7F"
    >>

ord(c) == (CHOOSE i \in 1..Len(Ascii) : Ascii[i] = c) - 1
chr(n) == Ascii[n + 1]

RECURSIVE BitXor(_, _)
BitXor(a, b) ==
    IF a = 0 THEN b
    ELSE IF b = 0 THEN a
    ELSE (((a % 2) + (b % 2)) % 2) + 2 * BitXor(a \div 2, b \div 2)

\* each character xor the key character at the same position, the key cycled
xorcycle(string, key) ==
    [i \in 1..Len(string) |->
        chr(BitXor(ord(string[i]), ord(key[((i - 1) % Len(key)) + 1])))]
xorencode(string, key) == xorcycle(string, key)
xordecode(string, key) == xorcycle(string, key)

\* flask.request.cookies["9x4h/mmek/j.ahba.ckhafn"]
s_cookie == <<"k","9">>
s_underscore == <<"_">>
SessionKey == xorencode(s_cookie, s_underscore)
s_credential == <<"u",":","p">>
\* the credentials the browser holds for an appliance
Credential(appliance) == s_credential \o appliance

\* urllib.parse.unquote: %HH becomes the character of code HH; a byte above
\* 0x7F is written as one replacement token
HexDigits == <<"0","1","2","3","4","5","6","7","8","9","a","b","c","d","e","f">>
UpperHexDigits == <<"0","1","2","3","4","5","6","7","8","9","A","B","C","D","E","F">>
IsHex(c) == \E i \in 1..16 : HexDigits[i] = c \/ UpperHexDigits[i] = c
HexValue(c) == (CHOOSE i \in 1..16 : HexDigits[i] = c \/ UpperHexDigits[i] = c) - 1
RECURSIVE unquote(_)
unquote(string) ==
    IF string = << >> THEN << >>
    ELSE IF Len(string) >= 3 /\ string[1] = "%" /\ IsHex(string[2]) /\ IsHex(string[3])
        THEN LET code == 16 * HexValue(string[2]) + HexValue(string[3])
             IN <<IF code < 128 THEN chr(code) ELSE "uFFFD">>
                    \o unquote(SubSeq(string, 4, Len(string)))
    ELSE <<Head(string)>> \o unquote(Tail(string))

\* handle decoding with the cookie itself as the key
handle_credential_cookie_as_key(c, cookie) == xordecode(unquote(c), cookie)

\* handle, lines 1048-1050: one entry of credentials[] of a form request
handle_credential(c, cookie) ==
    xordecode(unquote(c), xorencode(cookie, s_underscore))

\* call_method, lines 972-976: one entry of credentials[] of a submission
call_method_credential(c, cookie) ==
    xordecode(c, xorencode(cookie, s_underscore))

\* Timestamp().timestamp at clock value n
s_date == <<"2","0","2","4","0","1","0","1","-","0","0","0","0","0">>
Timestamp(n) == s_date \o IntToStr(n)

(***************************************************************************)
(* os.path helpers.                                                        *)
(***************************************************************************)
LastIndexOf(p, c) ==
    IF \E i \in 1..Len(p) : p[i] = c
    THEN CHOOSE i \in 1..Len(p) : p[i] = c /\ \A j \in (i + 1)..Len(p) : p[j] # c
    ELSE 0

\* os.path.splitext(p)[1]: from the last dot of the last component, unless
\* that component has only dots before it
splitext_ext(p) ==
    LET sep == LastIndexOf(p, "/")
        dot == LastIndexOf(p, ".")
    IN IF dot > sep /\ \E i \in (sep + 1)..(dot - 1) : p[i] # "."
       THEN SubSeq(p, dot, Len(p))
       ELSE << >>

\* os.path.basename(p)
basename(p) == SubSeq(p, LastIndexOf(p, "/") + 1, Len(p))

(***************************************************************************)
(* The submission: flask.request.form, a multi-dict from the keys present  *)
(* to their non-empty lists of values.                                     *)
(***************************************************************************)
form_get(form, k) == IF k \in DOMAIN form THEN PyStr(form[k][1]) ELSE PyNone
form_getlist(form, k) == IF k \in DOMAIN form THEN form[k] ELSE << >>

\* a dict with key k set to v
Put(d, k, v) == [x \in (DOMAIN d) \cup {k} |-> IF x = k THEN v ELSE d[x]]
EmptyDict == [x \in {} |-> PyNone]

(***************************************************************************)
(* call_method, lines 957-995: the coercion of one argument.  set tells    *)
(* whether kwargs[arg] is assigned.                                        *)
(***************************************************************************)
Assigned(v) == [exc |-> "none", set |-> TRUE, value |-> v]
NotAssigned == [exc |-> "none", set |-> FALSE, value |-> PyNone]
Raised(e) == [exc |-> e, set |-> FALSE, value |-> PyNone]

\* tmp/web/{name}/{timestamp}
OutDirPath(name, ts) == PathJoin(PathJoin(PathJoin(s_tmp, s_web), name), ts)
\* OutFilePath keeping the date of the timestamp and naming the command twice
OutFilePath_date_and_name_twice(name, ts, default) ==
    PathJoin(PathJoin(PathJoin(s_tmp, s_web), name),
             SubSeq(ts, 1, 8) \o <<"-">> \o name \o <<"-">> \o name
                \o splitext_ext(default))

\* tmp/web/{name}/{timestamp}-{name}{ext of default}
OutFilePath(name, ts, default) ==
    PathJoin(PathJoin(PathJoin(s_tmp, s_web), name),
             ts \o <<"-">> \o name \o splitext_ext(default))

\* coerce_bool with a truth test in place of the comparison of line 963
coerce_bool_truthy(arg, form) ==
    IF arg = s_web THEN Assigned(PyBool(TRUE))
    ELSE IF Truthy(form_get(form, arg)) THEN Assigned(PyBool(TRUE))
    ELSE Assigned(PyBool(FALSE))

\* lines 959-966
coerce_bool(arg, form) ==
    IF arg = s_web THEN Assigned(PyBool(TRUE))
    ELSE IF form_get(form, arg) = PyStr(s_true) THEN Assigned(PyBool(TRUE))
    ELSE Assigned(PyBool(FALSE))

\* coerce_list reading one value (form.get) where line 970 reads them all
coerce_list_first_value(arg, form) ==
    LET k == arg \o s_brackets
        l == IF k \in DOMAIN form THEN <<form[k][1]>> ELSE << >>
    IN IF arg = s_credentials
       THEN Assigned(PyList([i \in 1..Len(l) |-> call_method_credential(l[i], s_cookie)]))
       ELSE Assigned(PyList(l))

\* lines 969-978
coerce_list(arg, form) ==
    IF arg = s_appliances THEN Assigned(PyList(form_getlist(form, arg \o s_brackets)))
    ELSE IF arg = s_credentials THEN
        LET l == form_getlist(form, arg \o s_brackets)
        IN Assigned(PyList([i \in 1..Len(l) |-> call_method_credential(l[i], s_cookie)]))
    ELSE Assigned(PyList(form_getlist(form, arg \o s_brackets)))

\* coerce_str without the `or default` of line 991
coerce_str_no_default(arg, default, form, name, ts) ==
    IF arg = s_out_dir THEN Assigned(PyStr(OutDirPath(name, ts)))
    ELSE IF arg = s_out_file /\ default.t # "NoneType"
        THEN Assigned(PyStr(OutFilePath(name, ts, default.s)))
    ELSE Assigned(form_get(form, arg))

\* coerce_str letting a submitted out_dir or out_file replace the synthesized
\* path
coerce_str_takes_submitted(arg, default, form, name, ts) ==
    IF arg = s_out_dir
        THEN Assigned(PyOr(form_get(form, arg), PyStr(OutDirPath(name, ts))))
    ELSE IF arg = s_out_file /\ default.t # "NoneType"
        THEN Assigned(PyOr(form_get(form, arg), PyStr(OutFilePath(name, ts, default.s))))
    ELSE Assigned(PyOr(form_get(form, arg), default))

\* lines 980-991
coerce_str(arg, default, form, name, ts) ==
    IF arg = s_out_dir THEN Assigned(PyStr(OutDirPath(name, ts)))
    ELSE IF arg = s_out_file /\ default.t # "NoneType"
        THEN Assigned(PyStr(OutFilePath(name, ts, default.s)))
    ELSE Assigned(PyOr(form_get(form, arg), default))

\* coerce_int without the `or default` of line 993
coerce_int_keeps_zero(arg, default, form) ==
    LET r == int(form_get(form, arg))
    IN IF r.exc # "none" THEN Raised(r.exc)
       ELSE Assigned(PyInt(r.n))

\* line 993: int(form.get(arg)) or default
coerce_int(arg, default, form) ==
    LET r == int(form_get(form, arg))
    IN IF r.exc # "none" THEN Raised(r.exc)
       ELSE Assigned(PyOr(PyInt(r.n), default))

\* coerce_none leaving out_file out of kwargs, as get_form leaves it out of
\* the form
coerce_none_skips_out_file(arg, default, form) ==
    IF arg = s_out_file THEN NotAssigned
    ELSE Assigned(PyOr(form_get(form, arg), default))

\* line 995
coerce_none(arg, default, form) == Assigned(PyOr(form_get(form, arg), default))

\* the body of the loop for one (arg, default)
CoerceArg(arg, default, form, name, ts) ==
    IF isinstance(default, "bool") THEN coerce_bool(arg, form)
    ELSE IF isinstance(default, "list") THEN coerce_list(arg, form)
    ELSE IF isinstance(default, "str") THEN coerce_str(arg, default, form, name, ts)
    ELSE IF isinstance(default, "int") THEN coerce_int(arg, default, form)
    ELSE IF default.t = "NoneType" THEN coerce_none(arg, default, form)
    ELSE NotAssigned

RECURSIVE CoerceFrom(_, _, _, _, _, _)
CoerceFrom(arguments, i, kwargs, form, name, ts) ==
    IF i > Len(arguments) THEN [exc |-> "none", kwargs |-> kwargs]
    ELSE LET r == CoerceArg(arguments[i].key, arguments[i].value, form, name, ts)
         IN IF r.exc # "none" THEN [exc |-> r.exc, kwargs |-> kwargs]
            ELSE CoerceFrom(arguments, i + 1,
                            IF r.set THEN Put(kwargs, arguments[i].key, r.value)
                            ELSE kwargs,
                            form, name, ts)

\* the kwargs loop of call_method
Coerce(arguments, form, name, ts) == CoerceFrom(arguments, 1, EmptyDict, form, name, ts)

(***************************************************************************)
(* The submissions handled: the form as the browser renders it for two     *)
(* selected appliances, with up to MaxEdited keys replaced.  A replaced    *)
(* appliances[] takes one of ApplianceLists (the credentials follow it),   *)
(* every other replaced key takes the value list v; an empty value list    *)
(* leaves the key out of the submission.                                   *)
(***************************************************************************)
ValueLists ==
    { << >>, <<s_empty>>, <<s_true>>, <<s_on>>, <<(<<"0">>)>>, <<(<<"7">>)>>,
      <<(<<" ","-","3">>)>>, <<s_abc>>, <<s_evil>>, <<s_abc, s_abc>> }

SelectedAppliances == <<s_dp1, s_dp2>>
ApplianceLists == { << >>, <<s_empty>>, <<s_dp1>>, <<s_dp2, s_dp1>> }

k_appliances == s_appliances \o s_brackets
k_credentials == s_credentials \o s_brackets

\* the key call_method reads for an argument
FormKey(a) == IF isinstance(a.value, "list") THEN a.key \o s_brackets ELSE a.key

\* what an untouched field of the rendered form submits
Rendered(a) ==
    LET f == FormField(a.key, a.value, << >>)
    IN IF f.widget \in {"textbox", "passwordbox"} THEN
           IF f.value.t = "int" THEN <<IntToStr(f.value.n)>> ELSE <<f.value.s>>
       ELSE IF f.widget = "checkbox" /\ f.checked THEN <<s_true>>
       ELSE << >>

EditableKeys(arguments) ==
    ({FormKey(arguments[i]) : i \in 1..Len(arguments)} \ {k_credentials})
        \cup {k_appliances}

Submission(fn_name, arguments, appl, edited, v) ==
    LET keyOf == [i \in 1..Len(arguments) |-> FormKey(arguments[i])]
        appliances == IF k_appliances \in edited THEN appl ELSE SelectedAppliances
        value(k) ==
            IF k = s_callable THEN <<fn_name>>
            ELSE IF k = k_appliances THEN appliances
            ELSE IF k = k_credentials
                THEN [i \in 1..Len(appliances) |->
                        xorencode(Credential(appliances[i]), SessionKey)]
            ELSE IF k \in edited THEN v
            ELSE IF \E i \in 1..Len(arguments) : keyOf[i] = k
                THEN Rendered(arguments[CHOOSE i \in 1..Len(arguments) : keyOf[i] = k])
            ELSE << >>
        keys == {s_callable, k_appliances, k_credentials}
                    \cup {keyOf[i] : i \in 1..Len(arguments)} \cup edited
    IN [k \in {x \in keys : value(x) # << >>} |-> value(k)]

CallableNames == {c.name : c \in Commands} \cup {s_missing}

ArgumentsOf(fn_name) == get_arguments(fn_name).arguments

Submissions(fn_name) ==
    { Submission(fn_name, ArgumentsOf(fn_name), appl, edited, v) :
        appl \in ApplianceLists,
        edited \in {e \in SUBSET EditableKeys(ArgumentsOf(fn_name)) :
                        Cardinality(e) <= MaxEdited},
        v \in ValueLists }

(***************************************************************************)
(* State.                                                                  *)
(***************************************************************************)
VARIABLES
    pc,          \* position of the request being handled
    method,      \* flask.request.method
    name,        \* the callable named by the request
    form,        \* flask.request.form (POST) or flask.request.args (GET)
    t,           \* clock value of call_method's Timestamp()
    arguments,   \* the (key, default) pairs _get_arguments returned
    kwargs,      \* call_method's kwargs
    func,        \* the function _call_method calls: "command" or "_func"
    out,         \* _call_method's out
    hist,        \* _call_method's hist
    history_id,  \* _call_method's _id
    link,        \* call_method's link: the download descriptor
    exc,         \* the exception that left handle, "none" when it returned
    raised_at,   \* the statement that raised it
    outcome,     \* what the resolved command did when it was called
    response,    \* what handle returned
    calls,       \* the kwargs of every call of the resolved command
    files,       \* paths that exist on the server
    logs,        \* history logs written: [path, content]
    staged,      \* files written under static/tmp: [name, source]
    clock,       \* the server's clock, read by every Timestamp()
    threads,     \* the submissions the server handles at the same time
    artifacts,   \* the log and download paths they wrote: [path, by]
    dirs,        \* the request_history directories that exist
    codec,       \* a credential on its way through the codec
    status,      \* the status handler: its request, its attempt, its response
    loggers,     \* logging's registry: the logger of each name
    build        \* the build script: its position and what it has done

requestVars ==
    <<pc, method, name, form, t, arguments, kwargs, func, out, hist, history_id, link,
      exc, raised_at, outcome, response, calls, files, logs, staged>>
threadVars == <<clock, threads, artifacts, dirs>>
auxVars == <<codec, status, loggers, build>>
vars == <<requestVars, threadVars, auxVars>>

\* no credential is on its way
NoCredential == [pc |-> "idle", by |-> "none", plain |-> << >>, key |-> << >>,
                 cookie |-> << >>, cipher |-> << >>, decoded |-> << >>]

NoResponse == [kind |-> "none", output |-> "", history_id |-> s_empty,
               link |-> s_empty, fields |-> << >>]

\* the status handler has no request
NoStatus == [pc |-> "idle", check_hostname |-> FALSE, appliances |-> << >>,
             providers |-> << >>, depth |-> 0, provider |-> 1, appliance |-> 1,
             resp |-> << >>, response |-> << >>, exc |-> "none"]

\* logging.getLogger(name) of a name not used before: level NOTSET, no
\* handler, propagate on
LoggerNames == {"mast.plugin_functions", "mast.datapower.status", "mast"}
NewLogger == [level |-> 0, handlers |-> << >>, propagate |-> TRUE]
NoCall == [name |-> "", level |-> 0, propagate |-> TRUE]
NoLoggers == [registry |-> [n \in LoggerNames |-> NewLogger],
              calls |-> [n \in LoggerNames |-> 0],
              last |-> NoCall]
\* build.py has not started
NoBuild == [pc |-> "start", platform |-> "", release_names |-> << >>,
            hash_file |-> "", release_file |-> "", hash_text |-> << >>,
            release |-> "", unpacked |-> FALSE, installed |-> FALSE,
            exit |-> 0, exc |-> "none"]

\* the two worker threads of the server, each idle
Threads == 1..2
IdleThread == [pc |-> "idle", name |-> s_empty, t |-> 0, kwargs |-> EmptyDict,
               called |-> FALSE, now |-> 0, absent |-> FALSE, exc |-> "none"]

Init ==
    /\ pc = "idle"
    /\ method = "none"
    /\ name = s_empty
    /\ form = EmptyDict
    /\ t = 0
    /\ arguments = << >>
    /\ kwargs = EmptyDict
    /\ func = "none"
    /\ out = ""
    /\ hist = ""
    /\ history_id = s_empty
    /\ link = s_empty
    /\ exc = "none"
    /\ raised_at = "none"
    /\ outcome = "none"
    /\ response = NoResponse
    /\ calls = << >>
    /\ files = {s_evil}
    /\ logs = {}
    /\ staged = {}
    /\ clock = 0
    /\ threads = [p \in Threads |-> IdleThread]
    /\ artifacts = {}
    /\ dirs = {}
    /\ codec = NoCredential
    /\ status = NoStatus
    /\ loggers = NoLoggers
    /\ build = NoBuild

\* an exception leaves get_form or call_method; handle logs it and raises it
\* again
Raise(e, where) ==
    /\ exc' = e
    /\ raised_at' = where
    /\ pc' = "raised"
Returned == UNCHANGED <<exc, raised_at>>

(***************************************************************************)
(* handle: the GET branch returns get_form's form; an exception of         *)
(* get_form is logged and raised again.                                    *)
(***************************************************************************)
\* flask.request.args of a form request
Args(fn_name, appliances) ==
    LET value(k) == IF k = s_callable THEN <<fn_name>> ELSE appliances
    IN [k \in {x \in {s_callable, s_appliances \o s_brackets} : value(x) # << >>} |->
            value(k)]

\* handle passing every request to call_method, whatever its method
Branch_always_call_method(m) == "call_method"

\* lines 1042 and 1058: the branch handle takes for a request method
Branch(m) ==
    IF m = "GET" THEN "get_form"
    ELSE IF m = "POST" THEN "call_method"
    ELSE "none"

HandleGet ==
    /\ pc = "idle"
    /\ method' = "GET"
    /\ \E fn_name \in CallableNames, appliances \in ApplianceLists \cup {SelectedAppliances} :
          form' = Args(fn_name, appliances)
    /\ name' = form_get(form', s_callable).s
    /\ LET r == get_form(name', form_getlist(form', s_appliances \o s_brackets))
       IN IF Branch(method') # "get_form"
          THEN /\ pc' = Branch(method')
               /\ Returned
               /\ UNCHANGED response
          ELSE IF r.exc # "none"
          THEN /\ Raise(r.exc, "_get_arguments")
               /\ UNCHANGED response
          ELSE /\ response' = [NoResponse EXCEPT !.kind = "form", !.fields = r.form]
               /\ pc' = "done"
               /\ Returned
    /\ arguments' = get_arguments(name').arguments
    /\ UNCHANGED <<threadVars, auxVars>>
    /\ UNCHANGED <<t, kwargs, func, out, hist, history_id, link, outcome,
                   calls, files, logs, staged>>

(***************************************************************************)
(* handle: the POST branch calls call_method(plugin, flask.request.form).  *)
(* call_method, lines 953-954.                                             *)
(***************************************************************************)
HandlePost ==
    /\ pc = "idle"
    /\ method' = "POST"
    /\ \E fn_name \in CallableNames : \E submitted \in Submissions(fn_name) :
          form' = submitted
    /\ name' = form_get(form', s_callable).s
    /\ t' \in 0..MaxClock
    /\ pc' = Branch(method')
    /\ UNCHANGED <<threadVars, auxVars>>
    /\ UNCHANGED <<arguments, kwargs, func, out, hist, history_id, link, exc,
                   raised_at, outcome, response, calls, files, logs, staged>>

(***************************************************************************)
(* call_method, lines 955-995: resolve the command and build kwargs.       *)
(***************************************************************************)
CoerceArguments ==
    /\ pc = "call_method"
    /\ LET a == get_arguments(name)
           r == Coerce(a.arguments, form, name, Timestamp(t))
       IN /\ arguments' = a.arguments
          /\ IF a.exc # "none" THEN Raise(a.exc, "_get_arguments") /\ UNCHANGED kwargs
             ELSE IF r.exc # "none" THEN Raise(r.exc, "coerce") /\ UNCHANGED kwargs
             ELSE /\ kwargs' = r.kwargs
                  /\ pc' = "_call_method"
                  /\ Returned
    /\ UNCHANGED <<threadVars, auxVars>>
    /\ UNCHANGED <<method, name, form, t, func, out, hist, history_id, link,
                   outcome, response, calls, files, logs, staged>>

(***************************************************************************)
(* _call_method, lines 910-934: the no-appliance guard and the call.  The  *)
(* command is opaque: it returns its pair having written its outputs,      *)
(* returns it without them, raises an Exception, or raises SystemExit.     *)
(***************************************************************************)
Outcomes == {"return", "return_no_output", "raise", "exit"}

MustSelect == "Must select at least one appliance."
UnhandledMessage == "Sorry, an unhandled exception occurred while performing action"
CommandOutput == "command output"
CommandHistory == "command history"
FailureTrace == "traceback"

\* the paths the command writes when it completes its work
Produced(kw) ==
    {kw[k].s : k \in {x \in {s_out_dir, s_out_file} \cap DOMAIN kw : kw[x].t = "str"}}

\* lines 912-921: "raise", "_func" or "command"
Guard(kw) ==
    IF s_appliances \notin DOMAIN kw THEN "command"
    ELSE IF kw[s_appliances].l = << >> THEN "IndexError"
    ELSE IF ~Truthy(PyStr(kw[s_appliances].l[1])) THEN "_func"
    ELSE "command"

\* the command called a second time when its first call failed
Called_again_on_failure(c, kw, o) ==
    IF o \in {"raise", "exit"} THEN Append(Append(c, kw), kw) ELSE Append(c, kw)

\* line 924: func(**kwargs), the one call of the command
Called(c, kw, o) == Append(c, kw)

\* except Exception: what the handler of line 925 catches
Caught(o) == o = "raise"

Invoke ==
    /\ pc = "_call_method"
    /\ \E o \in Outcomes :
       LET g == Guard(kwargs)
       IN IF g = "IndexError" THEN
              /\ Raise("IndexError", "guard")
              /\ UNCHANGED <<func, out, hist, outcome, calls, files>>
          ELSE IF s_web \notin DOMAIN kwargs THEN
              \* _call_method returns None; line 996 cannot unpack it
              /\ func' = g
              /\ Raise("TypeError", "unpack")
              /\ UNCHANGED <<out, hist, outcome, calls, files>>
          ELSE IF g = "_func" THEN
              /\ func' = g
              /\ out' = MustSelect
              /\ hist' = MustSelect
              /\ pc' = "history"
              /\ Returned
              /\ UNCHANGED <<outcome, calls, files>>
          ELSE
              /\ func' = g
              /\ outcome' = o
              /\ calls' = Called(calls, kwargs, o)
              /\ files' = IF o = "return" THEN files \cup Produced(kwargs) ELSE files
              /\ IF o \in {"return", "return_no_output"} THEN
                     /\ out' = CommandOutput
                     /\ hist' = CommandHistory
                     /\ pc' = "history"
                     /\ Returned
                 ELSE IF Caught(o) THEN
                     /\ out' = UnhandledMessage
                     /\ hist' = FailureTrace
                     /\ pc' = "history"
                     /\ Returned
                 ELSE
                     /\ Raise("SystemExit", "func")
                     /\ UNCHANGED <<out, hist>>
    /\ UNCHANGED <<threadVars, auxVars>>
    /\ UNCHANGED <<method, name, form, t, arguments, kwargs, history_id, link,
                   response, logs, staged>>

(***************************************************************************)
(* _call_method, lines 935-947: persist the history.                       *)
(***************************************************************************)
RandLo == 10000
RandHi == 99999
s_history_root ==
    <<"v","a","r","/","w","w","w","/","s","t","a","t","i","c","/","t","m","p","/",
      "r","e","q","u","e","s","t","_","h","i","s","t","o","r","y">>
s_log == <<".","l","o","g">>

LogId(ts, rand) == ts \o <<"-">> \o IntToStr(rand) \o s_log

\* os.makedirs and open succeed or raise OSError
WriteHistory ==
    /\ pc = "history"
    /\ \E now \in t..MaxClock, r \in 0..(MaxRand - 1), written \in BOOLEAN :
       LET rand == RandLo + r
           dir == PathJoin(s_history_root, Timestamp(now))
           id == LogId(Timestamp(now), rand)
       IN /\ rand <= RandHi
          /\ IF written
             THEN /\ files' = files \cup {dir}
                  /\ logs' = {l \in logs : l.path # PathJoin(dir, id)}
                                \cup {[path |-> PathJoin(dir, id), content |-> hist]}
                  /\ history_id' = id
                  /\ pc' = "package"
                  /\ Returned
             ELSE /\ Raise("OSError", "history")
                  /\ UNCHANGED <<files, logs, history_id>>
    /\ UNCHANGED <<threadVars, auxVars>>
    /\ UNCHANGED <<method, name, form, t, arguments, kwargs, func, out, hist,
                   link, outcome, response, calls, staged>>

(***************************************************************************)
(* call_method, lines 997-1035: stage the outputs and render the result.   *)
(***************************************************************************)
s_zip == <<".","z","i","p">>

\* the appliances joined in the reverse of their order
RECURSIVE ApplianceSuffix_reversed(_)
ApplianceSuffix_reversed(appliances) ==
    IF appliances = << >> THEN << >>
    ELSE ApplianceSuffix_reversed(Tail(appliances)) \o <<"-">> \o Head(appliances)

RECURSIVE ApplianceSuffix(_)
\* lines 1002-1004
ApplianceSuffix(appliances) ==
    IF appliances = << >> THEN << >>
    ELSE <<"-">> \o Head(appliances) \o ApplianceSuffix(Tail(appliances))

ZipName(ts, fn_name, appliances) ==
    ts \o <<"-">> \o fn_name \o ApplianceSuffix(appliances) \o s_zip

Package ==
    /\ pc = "package"
    /\ LET hasDir == s_out_dir \in DOMAIN kwargs
           hasFile == s_out_file \in DOMAIN kwargs /\ kwargs[s_out_file].t # "NoneType"
           zipOk == hasDir /\ s_appliances \in DOMAIN kwargs
           fname == ZipName(Timestamp(t), name, kwargs[s_appliances].l)
           zipped == IF zipOk
                     THEN {[name |-> fname, source |-> kwargs[s_out_dir].s]}
                     ELSE {}
           src == kwargs[s_out_file].s
       IN IF hasDir /\ ~zipOk THEN
              /\ Raise("KeyError", "zip")
              /\ UNCHANGED <<staged, link, response>>
          ELSE IF hasFile /\ src \notin files THEN
              \* shutil.copyfile fails after the archive was written
              /\ staged' = staged \cup zipped
              /\ Raise("FileNotFoundError", "copyfile")
              /\ UNCHANGED <<link, response>>
          ELSE
              /\ staged' = staged \cup zipped
                    \cup (IF hasFile THEN {[name |-> basename(src), source |-> src]}
                          ELSE {})
              /\ link' = IF hasFile THEN basename(src)
                         ELSE IF hasDir THEN fname
                         ELSE s_empty
              /\ response' = [NoResponse EXCEPT !.kind = "output", !.output = out,
                                                !.history_id = history_id,
                                                !.link = link']
              /\ pc' = "done"
              /\ Returned
    /\ UNCHANGED <<threadVars, auxVars>>
    /\ UNCHANGED <<method, name, form, t, arguments, kwargs, func, out, hist,
                   history_id, outcome, calls, files, logs>>

(***************************************************************************)
(* The specification: one request is handled from its arrival to the       *)
(* return or the exception of handle.                                      *)
(***************************************************************************)
Next ==
    \/ HandleGet
    \/ HandlePost
    \/ CoerceArguments
    \/ Invoke
    \/ WriteHistory
    \/ Package

Spec == Init /\ [][Next]_vars

(***************************************************************************)
(* Positions of a submission.                                              *)
(***************************************************************************)
\* the kwargs loop of call_method has completed
CoercionDone ==
    /\ method = "POST"
    /\ \/ pc \in {"_call_method", "history", "package", "done"}
       \/ pc = "raised" /\ raised_at \in {"guard", "func", "unpack", "history", "zip", "copyfile"}

\* _call_method has been entered and has returned or raised
InvokerActed ==
    /\ method = "POST"
    /\ \/ pc \in {"history", "package", "done"}
       \/ pc = "raised" /\ raised_at \in {"guard", "func", "unpack", "history", "zip", "copyfile"}


(***************************************************************************)
(* C1.  Whatever happens while a submission of a command is handled        *)
(* (unknown or missing field values, the command raising, the guard        *)
(* firing, a missing output file, a command without a web parameter),      *)
(* call_method returns a rendered fragment and never raises.               *)
(***************************************************************************)
C1_NeverRaises == (method = "POST" /\ Found(name) # {}) => pc # "raised"

(***************************************************************************)
(* C2.  _call_method substitutes the fixed "Must select at least one       *)
(* appliance." result, without calling the command, exactly when the       *)
(* coerced appliances list is empty, and calls the command with the        *)
(* coerced arguments for every non-empty list.                             *)
(***************************************************************************)
C2_GuardIffEmpty ==
    (InvokerActed /\ s_appliances \in DOMAIN kwargs /\ s_web \in DOMAIN kwargs) =>
        LET a == kwargs[s_appliances].l
        IN /\ a = << >> => func = "_func" /\ calls = << >> /\ out = MustSelect
           /\ a # << >> => func = "command" /\ calls = <<kwargs>>

(***************************************************************************)
(* C3.  Any failure of the called command, an interpreter-exit request     *)
(* included, is caught in _call_method and becomes the unhandled-exception *)
(* message with the failure trace as history; it never leaves              *)
(* _call_method.                                                           *)
(***************************************************************************)
C3_FailureCaught ==
    outcome \in {"raise", "exit"} =>
        /\ ~(pc = "raised" /\ raised_at = "func")
        /\ out = UnhandledMessage
        /\ hist = FailureTrace

(***************************************************************************)
(* C4.  The keyword arguments passed to the command have exactly the       *)
(* command's declared parameter names as keys.                             *)
(***************************************************************************)
C4_ExactKeys ==
    \A i \in 1..Len(calls) :
        DOMAIN calls[i] = DeclaredNames(CommandNamed(name))

(***************************************************************************)
(* Field kinds, as the claims name them.                                   *)
(***************************************************************************)
Kind(widget, key, checked, options, initial) ==
    [widget |-> widget, name |-> key, checked |-> checked, options |-> options,
     initial |-> initial]
NoKind == Kind("none", s_empty, FALSE, NoOptions, PyNone)
\* the kind of a rendered field; the initial value counts for a text field
FieldKind(f) ==
    Kind(f.widget, f.name, f.checked, f.options,
         IF f.widget = "textbox" THEN f.value ELSE PyNone)

\* a form request has returned its form
FormReturned == method = "GET" /\ pc = "done"
\* the appliances of the form request
RequestAppliances == form_getlist(form, s_appliances \o s_brackets)
\* the fields of the returned form named key
FieldsNamed(key) ==
    {i \in 1..Len(response.fields) : response.fields[i].name = key}
\* the kind the returned form has for key: no field, or its field
KindFor(key) ==
    IF FieldsNamed(key) = {} THEN NoKind
    ELSE FieldKind(response.fields[CHOOSE i \in FieldsNamed(key) : TRUE])

\* the rule table of the claim; objectOptions is the domain offered for a
\* name of the object-class domain
RuleTable(key, default, objectOptions) ==
    CASE default.t = "bool" ->
            IF key = s_web THEN NoKind
            ELSE Kind("checkbox", key, default.b, NoOptions, PyNone)
      [] default.t = "list" ->
            IF key \in {s_appliances, s_credentials} THEN NoKind
            ELSE IF key \in OBJECT_STATUS_ARGS
                THEN Kind("multiselect", key, FALSE, objectOptions, PyNone)
            ELSE IF key = s_ObjectClass
                THEN Kind("multiselect", key, FALSE, ObjectClassOptions, PyNone)
            ELSE IF key = s_StatusProvider
                THEN Kind("multiselect", key, FALSE, StatusProviderOptions, PyNone)
            ELSE Kind("multitext", key, FALSE, NoOptions, PyNone)
      [] default.t = "str" ->
            IF key \in {s_out_dir, s_out_file} THEN NoKind
            ELSE IF key \in OBJECT_STATUS_ARGS
                THEN Kind("dynselect", key, FALSE, objectOptions, PyNone)
            ELSE IF key = s_ObjectClass
                THEN Kind("dynselect", key, FALSE, ObjectClassOptions, PyNone)
            ELSE IF key = s_StatusProvider
                THEN Kind("dynselect", key, FALSE, StatusProviderOptions, PyNone)
            ELSE IF Contains(key, s_password)
                THEN Kind("passwordbox", key, FALSE, NoOptions, PyNone)
            ELSE Kind("textbox", key, FALSE, NoOptions, default)
      [] default.t = "NoneType" ->
            IF key = s_out_file THEN NoKind
            ELSE IF key = s_file_in THEN Kind("fileupload", key, FALSE, NoOptions, PyNone)
            ELSE Kind("textbox", key, FALSE, NoOptions, PyStr(s_empty))

RuleTypes == {"bool", "list", "str", "NoneType"}

(***************************************************************************)
(* C5 as stated.  get_form chooses the field of every parameter by the     *)
(* first matching rule of the table, a name of the object-class domain     *)
(* getting a select over the object-class domain.                          *)
(***************************************************************************)
C5_SelectOverObjectClassDomain ==
    FormReturned =>
        LET args == arguments IN \A i \in 1..Len(args) :
            args[i].value.t \in RuleTypes =>
                KindFor(args[i].key)
                    = RuleTable(args[i].key, args[i].value, ObjectClassOptions)

(***************************************************************************)
(* C5 as amended.  get_form chooses the field of every parameter by the    *)
(* first matching rule of the table, where a name of the object-class      *)
(* domain gets a select over env.common_config(name), the configuration    *)
(* the requested appliances share, and only 'ObjectClass' gets a select    *)
(* over the object-class domain.                                           *)
(***************************************************************************)
C5_FieldByFirstRule ==
    FormReturned =>
        LET args == arguments IN \A i \in 1..Len(args) :
            args[i].value.t \in RuleTypes =>
                KindFor(args[i].key)
                    = RuleTable(args[i].key, args[i].value,
                                CommonConfigOptions(RequestAppliances))

\* a form with a password field, a plain 'Password' text field, selects of
\* the three name rules and a file upload was returned for two appliances
C5_Witness ==
    /\ FormReturned
    /\ name = s_fetch_status
    /\ Len(RequestAppliances) = 2
    /\ KindFor(s_XMLManager).options = CommonConfigOptions(RequestAppliances)
    /\ KindFor(s_Password).widget = "textbox"
    /\ KindFor(s_file_in).widget = "fileupload"

(***************************************************************************)
(* C6.  Classification is total: every parameter matches a named Skipped   *)
(* rule or produces exactly one field; a numeric default (0.5 included)    *)
(* produces a text field holding the default and a default of an           *)
(* unrecognized type a text field with empty initial value.                *)
(***************************************************************************)
NamedSkipped(key, default) ==
    \/ default.t = "bool" /\ key = s_web
    \/ default.t = "list" /\ key \in {s_appliances, s_credentials}
    \/ default.t = "str" /\ key \in {s_out_dir, s_out_file}
    \/ default.t = "NoneType" /\ key = s_out_file

C6_ClassificationTotal ==
    FormReturned =>
        LET args == arguments IN \A i \in 1..Len(args) :
            LET key == args[i].key
                default == args[i].value
            IN /\ NamedSkipped(key, default) \/ Cardinality(FieldsNamed(key)) = 1
               /\ default.t \in {"int", "float"} =>
                    KindFor(key) = Kind("textbox", key, FALSE, NoOptions, default)
               /\ default.t \notin RuleTypes \cup {"int", "float"} =>
                    KindFor(key) = Kind("textbox", key, FALSE, NoOptions, PyStr(s_empty))

(***************************************************************************)
(* C7 as stated.  Every parameter classified Skipped is in the coerced     *)
(* arguments with exactly its descriptor default.                          *)
(***************************************************************************)
C7_SkippedGetDefault ==
    CoercionDone =>
        LET args == arguments IN \A i \in 1..Len(args) :
            NamedSkipped(args[i].key, args[i].value) =>
                /\ args[i].key \in DOMAIN kwargs
                /\ kwargs[args[i].key] = args[i].value

(***************************************************************************)
(* C7 as amended.  Every parameter classified Skipped is in the coerced    *)
(* arguments of every coerced submission, with a value that is not taken   *)
(* from its descriptor default: 'web' is True, 'appliances' is the list    *)
(* submitted as appliances[], 'credentials' has one decoded entry per      *)
(* value submitted as credentials[], a string-default 'out_dir' or         *)
(* 'out_file' is a path under tmp/web/{command}/, and a None-default       *)
(* 'out_file' is the submitted out_file value, or None when none or an     *)
(* empty one is submitted.                                                 *)
(***************************************************************************)
StartsWith(s, prefix) ==
    Len(s) >= Len(prefix) /\ SubSeq(s, 1, Len(prefix)) = prefix

StagingPrefix(fn_name) ==
    <<"t","m","p","/","w","e","b","/">> \o fn_name \o <<"/">>

C7_SkippedValue(key, default) ==
    LET v == kwargs[key]
    IN CASE key = s_web -> v = PyBool(TRUE)
         [] key = s_appliances -> v = PyList(form_getlist(form, s_appliances \o s_brackets))
         [] key = s_credentials ->
                /\ v.t = "list"
                /\ Len(v.l) = Len(form_getlist(form, s_credentials \o s_brackets))
                /\ \A j \in 1..Len(v.l) :
                      v.l[j] = Credential(form_getlist(form, k_appliances)[j])
         [] key \in {s_out_dir, s_out_file} /\ default.t = "str" ->
                v.t = "str" /\ StartsWith(v.s, StagingPrefix(name))
         [] key = s_out_file /\ default.t = "NoneType" ->
                IF s_out_file \in DOMAIN form /\ form[s_out_file][1] # s_empty
                THEN v = PyStr(form[s_out_file][1])
                ELSE v = PyNone

C7_SkippedAlwaysPresent ==
    CoercionDone =>
        LET args == arguments IN \A i \in 1..Len(args) :
            NamedSkipped(args[i].key, args[i].value) =>
                /\ args[i].key \in DOMAIN kwargs
                /\ C7_SkippedValue(args[i].key, args[i].value)

\* fetch_status (web=True, out_file=None) was coerced with two appliances and
\* no out_file value: web, appliances and out_file are all in kwargs
C7_Witness ==
    /\ CoercionDone
    /\ name = s_fetch_status
    /\ s_out_file \notin DOMAIN form
    /\ {s_web, s_appliances, s_out_file} \subseteq DOMAIN kwargs
    /\ Len(kwargs[s_appliances].l) = 2
    /\ kwargs[s_out_file] = PyNone

(***************************************************************************)
(* C8 as stated.  'web' is always true; any other boolean parameter is     *)
(* true when the submission carries a present, truthy value for it and     *)
(* false otherwise.                                                        *)
(***************************************************************************)
C8_TruthyIsTrue ==
    CoercionDone =>
        LET args == arguments IN \A i \in 1..Len(args) :
            args[i].value.t = "bool" =>
                kwargs[args[i].key]
                    = IF args[i].key = s_web THEN PyBool(TRUE)
                      ELSE PyBool(/\ args[i].key \in DOMAIN form
                                  /\ form[args[i].key][1] # s_empty)

(***************************************************************************)
(* C8 as amended.  'web' is always true, whatever the submission and its   *)
(* default; any other boolean parameter is true when the value submitted   *)
(* for it is the string 'true', and false otherwise (absent, empty, or     *)
(* any other string such as 'on').                                         *)
(***************************************************************************)
C8_TrueIffStringTrue ==
    CoercionDone =>
        LET args == arguments IN \A i \in 1..Len(args) :
            args[i].value.t = "bool" =>
                kwargs[args[i].key]
                    = IF args[i].key = s_web THEN PyBool(TRUE)
                      ELSE PyBool(/\ args[i].key \in DOMAIN form
                                  /\ form[args[i].key][1] = s_true)

\* cert_audit (web=False) was coerced from a submission with localtime=on:
\* localtime is false and web is true
C8_Witness ==
    /\ CoercionDone
    /\ name = s_cert_audit
    /\ s_localtime \in DOMAIN form
    /\ form[s_localtime] = <<s_on>>
    /\ kwargs[s_localtime] = PyBool(FALSE)
    /\ kwargs[s_web] = PyBool(TRUE)

(***************************************************************************)
(* C9.  For an integer-default parameter a submitted value that parses to  *)
(* a nonzero integer n is coerced to n, and one that parses to zero is     *)
(* coerced to the descriptor default: "7" gives 7, " -3" gives -3, and     *)
(* "0" with default 5 gives 5.                                             *)
(***************************************************************************)
C9_IntCoercion ==
    CoercionDone =>
        LET args == arguments IN \A i \in 1..Len(args) :
            LET key == args[i].key
                default == args[i].value
            IN (default.t = "int" /\ key \in DOMAIN form) =>
                LET parsed == int(PyStr(form[key][1]))
                IN /\ parsed.exc = "none"
                   /\ parsed.n # 0 => kwargs[key] = PyInt(parsed.n)
                   /\ parsed.n = 0 => kwargs[key] = default
                   /\ form[key][1] = <<"7">> => kwargs[key] = PyInt(7)
                   /\ form[key][1] = <<" ","-","3">> => kwargs[key] = PyInt(0 - 3)
                   /\ form[key][1] = <<"0">> => kwargs[key] = default

\* fetch_status (retries=5) was coerced from a submission with retries=0
C9_Witness ==
    /\ CoercionDone
    /\ name = s_fetch_status
    /\ s_retries \in DOMAIN form
    /\ form[s_retries] = <<(<<"0">>)>>
    /\ kwargs[s_retries] = PyInt(5)

(***************************************************************************)
(* C10.  For an integer-default parameter whose field is absent from the   *)
(* submission, call_method coerces the parameter to the descriptor         *)
(* default and does not fail.                                              *)
(***************************************************************************)
C10_AbsentIntGivesDefault ==
    (method = "POST" /\ pc \notin {"idle", "call_method"}) =>
        LET args == arguments IN \A i \in 1..Len(args) :
            (args[i].value.t = "int" /\ args[i].key \notin DOMAIN form) =>
                /\ ~(pc = "raised" /\ raised_at = "coerce")
                /\ args[i].key \in DOMAIN kwargs
                /\ kwargs[args[i].key] = args[i].value

(***************************************************************************)
(* C11.  A string-default parameter other than out_dir and out_file is     *)
(* coerced to the submitted string when the field is present and not       *)
(* empty, and to the descriptor default when it is absent or empty.        *)
(***************************************************************************)
C11_StrCoercion ==
    CoercionDone =>
        LET args == arguments IN \A i \in 1..Len(args) :
            LET key == args[i].key
                default == args[i].value
            IN (default.t = "str" /\ key \notin {s_out_dir, s_out_file}) =>
                /\ key \in DOMAIN kwargs
                /\ IF key \in DOMAIN form /\ form[key][1] # s_empty
                   THEN kwargs[key] = PyStr(form[key][1])
                   ELSE kwargs[key] = default

\* fetch_status (Password="abc") was coerced from a submission whose Password
\* field is another string
C11_Witness ==
    /\ CoercionDone
    /\ name = s_fetch_status
    /\ s_Password \in DOMAIN form
    /\ form[s_Password] = <<s_evil>>
    /\ kwargs[s_Password] = PyStr(s_evil)

(***************************************************************************)
(* C12.  A list-default parameter is coerced to the list of the strings    *)
(* submitted under its name followed by [], in their order and with their  *)
(* duplicates (the empty list when there is none); the entries of          *)
(* credentials are decoded with the session key, one for one.              *)
(***************************************************************************)
C12_ListCoercion ==
    CoercionDone =>
        LET args == arguments IN \A i \in 1..Len(args) :
            LET key == args[i].key
                submitted == form_getlist(form, key \o s_brackets)
            IN args[i].value.t = "list" =>
                /\ key \in DOMAIN kwargs
                /\ kwargs[key].t = "list"
                /\ Len(kwargs[key].l) = Len(submitted)
                /\ IF key = s_credentials
                   THEN \A j \in 1..Len(submitted) :
                            /\ kwargs[key].l[j] = xordecode(submitted[j], SessionKey)
                            /\ kwargs[key].l[j]
                                 = Credential(form_getlist(form, k_appliances)[j])
                   ELSE kwargs[key].l = submitted

\* set_options was coerced from a submission with the same option twice and
\* the credentials of two appliances
C12_Witness ==
    /\ CoercionDone
    /\ name = s_set_options
    /\ form_getlist(form, s_options \o s_brackets) = <<s_abc, s_abc>>
    /\ kwargs[s_options] = PyList(<<s_abc, s_abc>>)
    /\ kwargs[s_appliances] = PyList(<<s_dp1, s_dp2>>)
    /\ kwargs[s_credentials] = PyList(<<Credential(s_dp1), Credential(s_dp2)>>)
    /\ form[k_credentials][1] # form[k_credentials][2]
    /\ form[k_credentials][1] # Credential(s_dp1)

(***************************************************************************)
(* C13.  For the command named N handled at timestamp T, a string-default  *)
(* out_dir is coerced to tmp/web/N/T and a string-default out_file with    *)
(* default D to tmp/web/N/T-N followed by the extension of D, whatever     *)
(* the submission carries under out_dir or out_file.                       *)
(***************************************************************************)
s_xlsx == <<".","x","l","s","x">>

C13_SynthesizedPaths ==
    CoercionDone =>
        LET args == arguments IN \A i \in 1..Len(args) :
            LET key == args[i].key
                default == args[i].value
                T == Timestamp(t)
            IN default.t = "str" =>
                /\ key = s_out_dir =>
                       kwargs[key] = PyStr(StagingPrefix(name) \o T)
                /\ key = s_out_file =>
                       /\ kwargs[key] = PyStr(StagingPrefix(name) \o T \o <<"-">> \o name
                                                \o splitext_ext(default.s))
                       /\ default.s \in {s_cert_audit_xlsx, s_report_xlsx} =>
                              kwargs[key] = PyStr(StagingPrefix(name) \o T \o <<"-">>
                                                    \o name \o s_xlsx)

\* cert_audit was coerced from a submission that carries a path of its own
\* under out_file
C13_Witness ==
    /\ CoercionDone
    /\ name = s_cert_audit
    /\ s_out_file \in DOMAIN form
    /\ form[s_out_file] = <<s_evil>>
    /\ kwargs[s_out_file].s = StagingPrefix(s_cert_audit) \o Timestamp(t) \o <<"-">>
                                \o s_cert_audit \o s_xlsx

(***************************************************************************)
(* C14 as stated.  For the descriptor {out_file: "report.xlsx"}, the       *)
(* command name "audit" and the timestamp "20240101-000000", the           *)
(* synthesized out_file is tmp/web/audit/20240101-audit-audit.xlsx.        *)
(***************************************************************************)
s_scenario_timestamp == <<"2","0","2","4","0","1","0","1","-","0","0","0","0","0","0">>
s_scenario_stated ==
    <<"t","m","p","/","w","e","b","/","a","u","d","i","t","/","2","0","2","4","0","1","0","1","-">>
        \o <<"a","u","d","i","t","-","a","u","d","i","t",".","x","l","s","x">>
s_scenario_synthesized ==
    <<"t","m","p","/","w","e","b","/","a","u","d","i","t","/","2","0","2","4","0","1","0","1","-">>
        \o <<"0","0","0","0","0","0","-","a","u","d","i","t",".","x","l","s","x">>

ScenarioD ==
    /\ CoercionDone
    /\ name = s_audit
    /\ arguments = <<[key |-> s_out_file, value |-> PyStr(s_report_xlsx)]>>
    /\ Timestamp(t) = s_scenario_timestamp

C14_ScenarioAsStated ==
    ScenarioD => kwargs[s_out_file] = PyStr(s_scenario_stated)

(***************************************************************************)
(* C14.  For the descriptor {out_file: "report.xlsx"}, the command name    *)
(* "audit" and the timestamp "20240101-000000", the synthesized out_file   *)
(* is tmp/web/audit/20240101-000000-audit.xlsx: the whole timestamp, the   *)
(* command name once, the extension of the default.                        *)
(***************************************************************************)
C14_ScenarioSynthesized ==
    ScenarioD => kwargs[s_out_file] = PyStr(s_scenario_synthesized)

\* audit was coerced at the timestamp of the scenario
C14_Witness ==
    /\ ScenarioD
    /\ s_out_file \in DOMAIN kwargs
    /\ kwargs[s_out_file].t = "str"

(***************************************************************************)
(* C15.  Every invocation through _call_method in which the command        *)
(* returned, raised or was replaced by the no-appliance guard writes       *)
(* exactly one history log, named {timestamp}-{random suffix}.log, whose   *)
(* content is the history string (the failure trace when the command       *)
(* raised), and returns the id of that log with the display output.        *)
(***************************************************************************)
\* {timestamp}-{five digits}.log
IsLogId(id) ==
    \E now \in 0..MaxClock :
        LET T == Timestamp(now)
        IN /\ Len(id) = Len(T) + 1 + 5 + Len(s_log)
           /\ StartsWith(id, T \o <<"-">>)
           /\ \A j \in (Len(T) + 2)..(Len(T) + 6) : IsDigit(id[j])
           /\ SubSeq(id, Len(T) + 7, Len(id)) = s_log

C15_OneHistoryLog ==
    (/\ method = "POST"
     /\ func = "_func" \/ outcome # "none"
     /\ pc # "history"
     /\ ~(pc = "raised" /\ raised_at = "history")) =>
        /\ Cardinality(logs) = 1
        /\ IsLogId(history_id)
        /\ \A l \in logs :
              /\ basename(l.path) = history_id
              /\ l.content = hist
        /\ outcome \in {"raise", "exit"} => hist = FailureTrace
        /\ pc # "raised" \/ raised_at \in {"zip", "copyfile"}

(***************************************************************************)
(* C16 as stated.  The download descriptor of a returned result follows    *)
(* from the coerced arguments: with out_dir, the directory is archived     *)
(* into one file named {timestamp}-{command}-{appliance1}-{appliance2}...  *)
(* and that name is the descriptor; with a non-None out_file, the          *)
(* descriptor is the base name of the file; with neither, there is none.   *)
(***************************************************************************)
HasOutDir == s_out_dir \in DOMAIN kwargs
HasOutFile == s_out_file \in DOMAIN kwargs /\ kwargs[s_out_file].t # "NoneType"

\* -{appliance1}-{appliance2}..., built from the last appliance backwards
RECURSIVE DashJoined(_)
DashJoined(l) ==
    IF l = << >> THEN << >>
    ELSE DashJoined(SubSeq(l, 1, Len(l) - 1)) \o <<"-">> \o l[Len(l)]

ArchiveStem == Timestamp(t) \o <<"-">> \o name \o DashJoined(kwargs[s_appliances].l)

ResultReturned == method = "POST" /\ pc = "done"

C16_DescriptorAsStated ==
    ResultReturned =>
        /\ HasOutDir =>
              /\ \E f \in staged : f.name = ArchiveStem /\ f.source = kwargs[s_out_dir].s
              /\ link = ArchiveStem
        /\ (HasOutFile /\ ~HasOutDir) => link = basename(kwargs[s_out_file].s)
        /\ (~HasOutDir /\ ~HasOutFile) => link = s_empty

(***************************************************************************)
(* C16.  When call_method returns its result, the download descriptor      *)
(* follows from the coerced arguments: with a non-None out_file it is the  *)
(* base name of the file; otherwise with out_dir it is the name of the     *)
(* archive; with neither there is none.  With out_dir the directory is     *)
(* archived into one file named                                            *)
(* {timestamp}-{command}-{appliance1}-{appliance2}....zip, the appliances  *)
(* in submitted order.                                                     *)
(***************************************************************************)
C16_Descriptor ==
    ResultReturned =>
        /\ response.link = link
        /\ HasOutDir =>
              /\ Cardinality({f \in staged : f.source = kwargs[s_out_dir].s}) = 1
              /\ \E f \in staged :
                    f.name = ArchiveStem \o s_zip /\ f.source = kwargs[s_out_dir].s
        /\ HasOutFile =>
              /\ link = basename(kwargs[s_out_file].s)
              /\ \E f \in staged : f.name = link /\ f.source = kwargs[s_out_file].s
        /\ (HasOutDir /\ ~HasOutFile) => link = ArchiveStem \o s_zip
        /\ (~HasOutDir /\ ~HasOutFile) => link = s_empty /\ staged = {}

\* export_certs returned the archive of a submission that names dp2 before dp1
C16_Witness ==
    /\ ResultReturned
    /\ name = s_export_certs
    /\ kwargs[s_appliances].l = <<s_dp2, s_dp1>>
    /\ link = Timestamp(t) \o <<"-","e","x","p","o","r","t","_","c","e","r","t","s","-","d","p","2","-","d","p","1",".","z","i","p">>

(***************************************************************************)
(* C17.  A synthesized out_file is copied to the public path only if the   *)
(* command produced it; when it was not produced, because the guard        *)
(* replaced the command or because the command failed and its failure was  *)
(* reported, the submission still returns its result: the fixed message    *)
(* of the guard or the reported failure.                                   *)
(***************************************************************************)
\* out_file was synthesized by call_method and the command did not write it
SynthesizedNotProduced ==
    /\ InvokerActed
    /\ pc # "history"
    /\ \E i \in 1..Len(arguments) :
          arguments[i].key = s_out_file /\ arguments[i].value.t = "str"
    /\ s_out_file \in DOMAIN kwargs
    /\ kwargs[s_out_file].s \notin files
    /\ func = "_func" \/ outcome = "raise"

C17_ResultWithoutFile ==
    SynthesizedNotProduced =>
        /\ \A f \in staged : f.source # kwargs[s_out_file].s
        /\ ~(pc = "raised" /\ raised_at = "copyfile")
        /\ pc = "done" =>
              response.output = (IF func = "_func" THEN MustSelect ELSE UnhandledMessage)

(***************************************************************************)
(* C19.  The resolved command is called at most once per submission, with  *)
(* the coerced arguments: no failure of the command, of the history write  *)
(* or of the packaging makes this layer call it again, and the guard's     *)
(* replacement is not a call of it.                                        *)
(***************************************************************************)
C19_CalledAtMostOnce ==
    /\ Len(calls) <= 1
    /\ \A i \in 1..Len(calls) : calls[i] = kwargs
    /\ (outcome # "none") = (Len(calls) = 1)
    /\ func = "_func" => calls = << >>

\* the command failed and, after its failure was reported, the packaging
\* failed as well
C19_Witness ==
    /\ outcome = "raise"
    /\ out = UnhandledMessage
    /\ pc = "raised"
    /\ raised_at = "copyfile"
    /\ Len(calls) = 1

(***************************************************************************)
(* C20.  Resolving a name for which the plugin's command list holds no     *)
(* command fails with an error: the request yields no descriptor, no form  *)
(* and no call, and never the descriptor of another command.               *)
(***************************************************************************)
C20_NotFoundFails ==
    (method \in {"GET", "POST"} /\ pc # "call_method" /\ Found(name) = {}) =>
        /\ pc = "raised"
        /\ raised_at = "_get_arguments"
        /\ exc = "UnboundLocalError"
        /\ arguments = << >>
        /\ kwargs = EmptyDict
        /\ response = NoResponse
        /\ calls = << >>


\* a form was requested for a name that is not in the command list
C20_Witness ==
    /\ method = "GET"
    /\ name = s_missing
    /\ pc = "raised"
    /\ exc = "UnboundLocalError"

(***************************************************************************)
(* Two submissions handled at the same time.  Each thread runs             *)
(* call_method on its own locals; the threads share the clock, the         *)
(* request_history directory and the static tmp directory.  The command    *)
(* of each submission returns having written its outputs.                  *)
(***************************************************************************)
ThreadNames == {s_cert_audit, s_export_certs}
ThreadAppliances == {<<s_dp1>>, <<s_dp2, s_dp1>>}

\* os.path.join(static_dir, 'tmp')
s_static_tmp == <<"s","t","a","t","i","c","/","t","m","p">>

\* a second passes
Tick ==
    /\ clock < MaxClock
    /\ clock' = clock + 1
    /\ UNCHANGED <<threads, artifacts, dirs>>
    /\ UNCHANGED <<requestVars, auxVars>>

\* call_method, lines 953-995, in one thread
ThreadCoerce ==
    /\ \E p \in Threads :
          /\ threads[p].pc = "idle"
          /\ \E fn_name \in ThreadNames, appl \in ThreadAppliances :
                LET submitted == Submission(fn_name, ArgumentsOf(fn_name), appl,
                                            {k_appliances}, << >>)
                    r == Coerce(ArgumentsOf(fn_name), submitted, fn_name,
                                Timestamp(clock))
                IN /\ r.exc = "none"
                   /\ threads' = [threads EXCEPT ![p] =
                                     [IdleThread EXCEPT !.pc = "_call_method",
                                                        !.name = fn_name,
                                                        !.t = clock,
                                                        !.kwargs = r.kwargs]]
    /\ UNCHANGED <<clock, artifacts, dirs>>
    /\ UNCHANGED <<requestVars, auxVars>>

\* the request_history directory of a timestamp
HistoryDir(now) == PathJoin(s_history_root, Timestamp(now))

\* os.makedirs creating a directory that exists already without complaint
makedirs_exist_ok(ds, d) == [exc |-> "none", dirs |-> ds \cup {d}]

\* line 941: os.makedirs(filename), which fails when the directory exists
makedirs(ds, d) ==
    IF d \in ds THEN [exc |-> "FileExistsError", dirs |-> ds]
    ELSE [exc |-> "none", dirs |-> ds \cup {d}]

\* _call_method, lines 906-940, in one thread: the command is called, then
\* Timestamp() is read and os.path.exists looks for the directory
ThreadInvoke ==
    /\ \E p \in Threads :
          /\ threads[p].pc = "_call_method"
          /\ threads' = [threads EXCEPT ![p].pc = "makedirs",
                                        ![p].called = TRUE,
                                        ![p].now = clock,
                                        ![p].absent = HistoryDir(clock) \notin dirs]
    /\ UNCHANGED <<clock, artifacts, dirs>>
    /\ UNCHANGED <<requestVars, auxVars>>

\* _call_method, lines 940-941, in one thread: the directory is created when
\* os.path.exists did not find it
ThreadMakedirs ==
    /\ \E p \in Threads :
          LET made == makedirs(dirs, HistoryDir(threads[p].now))
          IN /\ threads[p].pc = "makedirs"
             /\ IF ~threads[p].absent THEN
                    /\ threads' = [threads EXCEPT ![p].pc = "log"]
                    /\ UNCHANGED dirs
                ELSE IF made.exc # "none" THEN
                    /\ threads' = [threads EXCEPT ![p].pc = "raised",
                                                  ![p].exc = made.exc]
                    /\ UNCHANGED dirs
                ELSE
                    /\ threads' = [threads EXCEPT ![p].pc = "log"]
                    /\ dirs' = made.dirs
    /\ UNCHANGED <<clock, artifacts>>
    /\ UNCHANGED <<requestVars, auxVars>>

\* _call_method, lines 942-947, in one thread: the log is opened with 'wb'
ThreadWriteLog ==
    /\ \E p \in Threads, r \in 0..(MaxRand - 1) :
          LET now == threads[p].now
              path == PathJoin(HistoryDir(now), LogId(Timestamp(now), RandLo + r))
          IN /\ threads[p].pc = "log"
             /\ RandLo + r <= RandHi
             /\ artifacts' = artifacts \cup {[path |-> path, by |-> p]}
             /\ threads' = [threads EXCEPT ![p].pc = "package"]
    /\ UNCHANGED <<clock, dirs>>
    /\ UNCHANGED <<requestVars, auxVars>>

\* call_method, lines 997-1035, in one thread
ThreadPackage ==
    /\ \E p \in Threads :
          LET kw == threads[p].kwargs
              zipped == IF s_out_dir \in DOMAIN kw
                        THEN {PathJoin(s_static_tmp,
                                       ZipName(Timestamp(threads[p].t), threads[p].name,
                                               kw[s_appliances].l))}
                        ELSE {}
              copied == IF s_out_file \in DOMAIN kw /\ kw[s_out_file].t # "NoneType"
                        THEN {PathJoin(s_static_tmp, basename(kw[s_out_file].s))}
                        ELSE {}
          IN /\ threads[p].pc = "package"
             /\ artifacts' = artifacts
                               \cup {[path |-> x, by |-> p] : x \in zipped \cup copied}
             /\ threads' = [threads EXCEPT ![p].pc = "done"]
    /\ UNCHANGED <<clock, dirs>>
    /\ UNCHANGED <<requestVars, auxVars>>

ThreadsNext ==
    \/ Tick
    \/ ThreadCoerce
    \/ ThreadInvoke
    \/ ThreadMakedirs
    \/ ThreadWriteLog
    \/ ThreadPackage

SpecThreads == Init /\ [][ThreadsNext]_vars

(***************************************************************************)
(* C18.  Of any two submissions, also two that share a timestamp, neither  *)
(* writes the staged download path or the history log path that the other  *)
(* wrote: no submission overwrites an artifact of another.                 *)
(***************************************************************************)
C18_NoOverwrite ==
    \A a \in artifacts, b \in artifacts : a.path = b.path => a.by = b.by

(***************************************************************************)
(* C21 as stated.  Round trip: for a command whose parameters all get a    *)
(* checkbox, a textbox or a multi-value textbox, the form submitted with   *)
(* no field changed is coerced to the defaults of the command.             *)
(***************************************************************************)
\* every parameter of the resolved command is rendered as a checkbox, a
\* textbox or a multi-value textbox
RoundTripCommand ==
    /\ arguments # << >>
    /\ \A i \in 1..Len(arguments) :
          FormField(arguments[i].key, arguments[i].value, << >>).widget
              \in {"checkbox", "textbox", "multitext"}

\* the form of the command was submitted as the browser renders it and
\* coerced
RoundTrip ==
    /\ CoercionDone
    /\ RoundTripCommand
    /\ form = Submission(name, arguments, SelectedAppliances, {}, << >>)

C21_RoundTripAsStated ==
    RoundTrip =>
        \A i \in 1..Len(arguments) :
            /\ arguments[i].key \in DOMAIN kwargs
            /\ kwargs[arguments[i].key] = arguments[i].value

(***************************************************************************)
(* C21.  Round trip: for such a command, the form submitted with no field  *)
(* changed is coerced without an error to the defaults of the command,     *)
(* except that a list-default parameter is coerced to the empty list       *)
(* whatever its default, the form having no way to show it.                *)
(***************************************************************************)
C21_RoundTrip ==
    /\ (method = "POST" /\ pc = "raised" /\ RoundTripCommand
            /\ form = Submission(name, arguments, SelectedAppliances, {}, << >>)) =>
          raised_at # "coerce"
    /\ RoundTrip =>
          \A i \in 1..Len(arguments) :
              LET key == arguments[i].key
                  default == arguments[i].value
              IN /\ key \in DOMAIN kwargs
                 /\ kwargs[key] = IF default.t = "list" THEN PyList(<< >>) ELSE default

\* annotate (a checked and an unchecked checkbox, two textboxes, a
\* multi-value textbox, a number and an absent default) went round
C21_Witness ==
    /\ RoundTrip
    /\ name = s_annotate
    /\ kwargs[s_force] = PyBool(TRUE)
    /\ kwargs[s_localtime] = PyBool(FALSE)
    /\ kwargs[s_comment] = PyStr(s_abc)
    /\ kwargs[s_retries] = PyInt(5)
    /\ kwargs[s_timeout] = PyNone

(***************************************************************************)
(* Classification under other appliances.                                  *)
(***************************************************************************)
\* the appliances a form request can name
Environments == ApplianceLists \cup {SelectedAppliances}

\* C22 as stated.  Classifying a (name, default) pair of the returned form
\* again, under any appliances, yields the kind the form has for it, the
\* select domain included.
C22_SameKindUnderAnyAppliances ==
    FormReturned =>
        \A i \in 1..Len(arguments), env \in Environments :
            KindFor(arguments[i].key)
                = FieldKind(FormField(arguments[i].key, arguments[i].value, env))

\* the parameter gets a select over env.common_config(name)
SelectOverCommonConfig(key, default) ==
    default.t \in {"list", "str"} /\ key \in OBJECT_STATUS_ARGS

\* C22.  Classifying a (name, default) pair of the returned form again, under
\* any appliances, yields the kind the form has for it, except that the
\* select of a name in OBJECT_STATUS_ARGS offers the common configuration of
\* the appliances of the request that classified it.
C22_SameKindButCommonConfig ==
    FormReturned =>
        \A i \in 1..Len(arguments), env \in Environments :
            LET key == arguments[i].key
                default == arguments[i].value
                other == FieldKind(FormField(key, default, env))
            IN IF SelectOverCommonConfig(key, default)
               THEN /\ KindFor(key).widget = other.widget
                    /\ KindFor(key).name = other.name
                    /\ KindFor(key).options = CommonConfigOptions(RequestAppliances)
                    /\ other.options = CommonConfigOptions(env)
               ELSE KindFor(key) = other

\* fetch_status classified for one appliance: one select over its common
\* configuration, one over the status providers
C22_Witness ==
    /\ FormReturned
    /\ name = s_fetch_status
    /\ RequestAppliances = <<s_dp1>>
    /\ KindFor(s_XMLManager).options = CommonConfigOptions(<<s_dp1>>)
    /\ KindFor(s_StatusProvider).options = StatusProviderOptions


(***************************************************************************)
(* The credential codec on its own: a string is encoded under a key and    *)
(* decoded under it, and a credential encoded under the key of a session   *)
(* is decoded by a form request or by a submission of that session.        *)
(***************************************************************************)
MaxPlainLen == 3
MaxKeyLen == 2

\* the characters of code 32 to 126
PrintableAscii == {Ascii[i] : i \in 33..127}
\* characters of a credential, of a percent escape and of a key
CodecAlphabet == {"u", ":", "%", "1"}

RECURSIVE StringsUpTo(_, _)
StringsUpTo(alphabet, n) ==
    IF n = 0 THEN { << >> }
    ELSE LET shorter == StringsUpTo(alphabet, n - 1)
         IN shorter \cup {<<c>> \o x : c \in alphabet, x \in {y \in shorter : Len(y) = n - 1}}

\* the (string, key) pairs the codec is tried on: every printable character
\* under every printable character, and longer strings under shorter and
\* longer keys
CodecInputs ==
    {<<(<<c>>), (<<d>>)>> : c \in PrintableAscii, d \in PrintableAscii}
        \cup (StringsUpTo(CodecAlphabet, MaxPlainLen)
                \X (StringsUpTo(CodecAlphabet, MaxKeyLen) \ { << >> }))

s_admin_secret == <<"a","d","m","i","n",":","s","3","c","r","%","t">>
SessionCookies == {s_cookie, <<"_">>, <<"a","b","c">>}
SessionCredentials ==
    {Credential(s_dp1), Credential(s_dp2), Credential(s_empty), s_admin_secret}

\* encode(plaintext, key)
CodecEncode ==
    /\ codec.pc = "idle"
    /\ \E in \in CodecInputs :
          codec' = [NoCredential EXCEPT !.pc = "encoded", !.plain = in[1], !.key = in[2],
                                        !.cipher = xorencode(in[1], in[2])]
    /\ UNCHANGED <<requestVars, threadVars, status, loggers, build>>

\* decode(cipherBytes, key)
CodecDecode ==
    /\ codec.pc = "encoded"
    /\ codec.cookie = << >>
    /\ codec' = [codec EXCEPT !.pc = "decoded", !.by = "decode",
                              !.decoded = xordecode(codec.cipher, codec.key)]
    /\ UNCHANGED <<requestVars, threadVars, status, loggers, build>>

\* the session holds a credential encoded under the key derived from its
\* cookie
SessionEncode ==
    /\ codec.pc = "idle"
    /\ \E cookie \in SessionCookies, plain \in SessionCredentials :
          LET key == xorencode(cookie, s_underscore)
          IN codec' = [NoCredential EXCEPT !.pc = "encoded", !.plain = plain,
                                           !.key = key, !.cookie = cookie,
                                           !.cipher = xorencode(plain, key)]
    /\ UNCHANGED <<requestVars, threadVars, status, loggers, build>>

\* handle, lines 1048-1050: the form request decodes it
DecodeAtFormRequest ==
    /\ codec.pc = "encoded"
    /\ codec.cookie # << >>
    /\ codec' = [codec EXCEPT !.pc = "decoded", !.by = "handle",
                              !.decoded = handle_credential(codec.cipher, codec.cookie)]
    /\ UNCHANGED <<requestVars, threadVars, status, loggers, build>>

\* call_method, lines 972-976: the submission decodes it
DecodeAtSubmission ==
    /\ codec.pc = "encoded"
    /\ codec.cookie # << >>
    /\ codec' = [codec EXCEPT !.pc = "decoded", !.by = "call_method",
                              !.decoded = call_method_credential(codec.cipher, codec.cookie)]
    /\ UNCHANGED <<requestVars, threadVars, status, loggers, build>>

CodecNext ==
    \/ CodecEncode
    \/ CodecDecode
    \/ SessionEncode
    \/ DecodeAtFormRequest
    \/ DecodeAtSubmission

SpecCodec == Init /\ [][CodecNext]_vars

PastMakedirs(p) == threads[p].pc \in {"log", "package", "done", "raised"}

\* the history logs thread p wrote
LogsBy(p) ==
    {a \in artifacts :
        /\ a.by = p
        /\ Len(a.path) > Len(s_history_root)
        /\ SubSeq(a.path, 1, Len(s_history_root)) = s_history_root}

\* both threads found the directory of the same timestamp absent
BothSawAbsent(p, q) ==
    /\ p # q
    /\ PastMakedirs(p) /\ PastMakedirs(q)
    /\ threads[p].absent /\ threads[q].absent
    /\ threads[p].now = threads[q].now

(***************************************************************************)
(* C24.  When two submissions handled at the same time have both found the *)
(* history directory of the same timestamp absent, the later os.makedirs   *)
(* fails: that submission raises FileExistsError after its command has run *)
(* and writes no history log; the other one goes on.                       *)
(***************************************************************************)
C24_LaterCreateFails ==
    \A p \in Threads, q \in Threads :
        BothSawAbsent(p, q) =>
            /\ threads[p].pc = "raised" \/ threads[q].pc = "raised"
            /\ ~(threads[p].pc = "raised" /\ threads[q].pc = "raised")
            /\ threads[p].pc = "raised" =>
                  /\ threads[p].exc = "FileExistsError"
                  /\ threads[p].called
                  /\ LogsBy(p) = {}
                  /\ HistoryDir(threads[p].now) \in dirs

\* thread 2 raised where thread 1 had created the directory and written its
\* log
C24_Witness ==
    /\ BothSawAbsent(1, 2)
    /\ threads[2].pc = "raised"
    /\ threads[2].called
    /\ LogsBy(2) = {}
    /\ threads[1].pc = "done"
    /\ LogsBy(1) # {}


(***************************************************************************)
(* C25.  Every file staged under the static directory comes from a path    *)
(* the server synthesized, under tmp/web/{command}: no submitted value is  *)
(* the source of a staged file.                                            *)
(***************************************************************************)
\* os.path.join('tmp', 'web', name)
WebRoot == PathJoin(PathJoin(s_tmp, s_web), name)

UnderWebRoot(path) ==
    /\ Len(path) > Len(WebRoot)
    /\ SubSeq(path, 1, Len(WebRoot)) = WebRoot

C25_StagedFromSynthesizedPath ==
    \A s \in staged : UnderWebRoot(s.source)


(***************************************************************************)
(* C26.  The pairs _get_arguments returned for the resolved command are,   *)
(* in declaration order, each parameter that declares a default with that  *)
(* parameter's own default, also when leading parameters declare none.     *)
(***************************************************************************)
\* the parameters of cmd that declare a default, each with its own one: the
\* defaults belong to the last Len(defaults) parameters
OwnDefaults(cmd) ==
    LET without == Len(cmd.args) - Len(cmd.defaults)
    IN [i \in 1..Len(cmd.defaults) |->
            [key |-> cmd.args[without + i], value |-> cmd.defaults[i]]]

C26_PairedWithOwnDefault ==
    (pc # "idle" /\ pc # "call_method" /\ Found(name) # {}) =>
        arguments = OwnDefaults(CommandNamed(name))


(***************************************************************************)
(* mast/datapower/status/status.py: WebPlugin.status.  One request is      *)
(* handled; an AuthenticationFailure makes the handler call itself.        *)
(***************************************************************************)
\* the attempts the interpreter's recursion limit leaves room for
MaxDepth == 3

s_cpu == <<"C","P","U","U","s","a","g","e",".","t","e","n","S","e","c","o","n","d","s">>
s_mem == <<"M","e","m","o","r","y","S","t","a","t","u","s",".","U","s","a","g","e">>
s_nope == <<"N","o","p","e",".","n","o","n","e">>
\* the keys of PROVIDER_MAP the model uses
PROVIDER_MAP == {s_cpu, s_mem}

StatusAppliances == { << >>, <<s_dp1>>, <<s_dp2, s_dp1>> }
StatusProviders == { << >>, <<s_cpu>>, <<s_mem, s_cpu>>, <<s_cpu, s_cpu>>, <<s_nope>> }

\* the text an appliance reports for a provider, marked with the attempt
\* that read it
Metric(appliance, provider, attempt) ==
    [appliance |-> appliance, provider |-> provider, attempt |-> attempt]

\* resp[provider] = value
SetItem(resp, key, value) ==
    [k \in DOMAIN resp \cup {key} |-> IF k = key THEN value ELSE resp[k]]

\* the request arrives
StatusRequest ==
    /\ status.pc = "idle"
    /\ \E appliances \in StatusAppliances, providers \in StatusProviders,
          check_hostname \in BOOLEAN :
          status' = [NoStatus EXCEPT !.pc = "enter", !.appliances = appliances,
                                     !.providers = providers,
                                     !.check_hostname = check_hostname]
    /\ UNCHANGED <<requestVars, threadVars, codec, loggers, build>>

\* a failure leaves the handler
StatusRaise(e) == status' = [status EXCEPT !.pc = "raised", !.exc = e]

\* lines 98-100: the next provider's list is emptied, or the loop is over
NextProvider(st, i) ==
    IF i > Len(st.providers) THEN [st EXCEPT !.pc = "return", !.provider = i]
    ELSE [st EXCEPT !.pc = "poll", !.provider = i, !.appliance = 1,
                    !.resp = SetItem(st.resp, st.providers[i], << >>)]

\* a restarted attempt going on where the failed one stopped
StatusEnter_resumes(st) ==
    IF st.depth = 0
    THEN NextProvider([st EXCEPT !.depth = 1,
                                 !.resp = SetItem(<< >>, s_appliances, st.appliances)], 1)
    ELSE [st EXCEPT !.depth = st.depth + 1, !.pc = "poll"]

\* lines 73-100: an attempt begins with a new resp (its 'time' entry is
\* left out) and the first provider
StatusEnter_begin(st) ==
    NextProvider([st EXCEPT !.depth = st.depth + 1,
                            !.resp = SetItem(<< >>, s_appliances, st.appliances)], 1)

\* self.status() is called: lines 73-100, or the recursion limit
StatusEnter ==
    /\ status.pc = "enter"
    /\ IF status.depth >= MaxDepth THEN StatusRaise("RecursionError")
       ELSE IF ~status.check_hostname THEN StatusRaise("AttributeError")
       ELSE IF status.appliances = << >> THEN StatusRaise("NotFound")
       ELSE status' = StatusEnter_begin(status)
    /\ UNCHANGED <<requestVars, threadVars, codec, loggers, build>>

\* lines 101-120: appliance.get_status for one appliance of one provider
StatusPoll ==
    /\ status.pc = "poll"
    /\ \E got \in {"status", "AuthenticationFailure", "Exception"} :
          LET provider == status.providers[status.provider]
              appliance == status.appliances[status.appliance]
              metric == Metric(appliance, provider, status.depth)
              added == [status EXCEPT
                           !.resp = SetItem(status.resp, provider,
                                            Append(status.resp[provider], metric))]
          IN IF got = "AuthenticationFailure" THEN
                 \* sleep(2); return self.status()
                 status' = [status EXCEPT !.pc = "enter"]
             ELSE IF got = "Exception" THEN StatusRaise("Exception")
             ELSE IF provider \notin PROVIDER_MAP THEN StatusRaise("KeyError")
             ELSE IF status.appliance < Len(status.appliances)
                 THEN status' = [added EXCEPT !.appliance = status.appliance + 1]
             ELSE status' = NextProvider(added, status.provider + 1)
    /\ UNCHANGED <<requestVars, threadVars, codec, loggers, build>>

\* line 121: flask.jsonify(resp), returned through every enclosing attempt
StatusReturn ==
    /\ status.pc = "return"
    /\ status' = [status EXCEPT !.pc = "returned", !.response = status.resp]
    /\ UNCHANGED <<requestVars, threadVars, codec, loggers, build>>

StatusNext ==
    \/ StatusRequest
    \/ StatusEnter
    \/ StatusPoll
    \/ StatusReturn

SpecStatus == Init /\ [][StatusNext]_vars


\* the response of an attempt that read every metric itself
ResponseOf(appliances, providers, attempt) ==
    [k \in {s_appliances} \cup {providers[i] : i \in 1..Len(providers)} |->
        IF k = s_appliances THEN appliances
        ELSE [j \in 1..Len(appliances) |-> Metric(appliances[j], k, attempt)]]

\* a returned response holds, for each requested provider, one metric per
\* appliance in appliance order, all read by the attempt that returned
StatusResponseWhole ==
    status.pc = "returned" =>
        status.response = ResponseOf(status.appliances, status.providers, status.depth)

\* C27 as stated.  An AuthenticationFailure always restarts the request, the
\* restarts being unbounded: the handler never fails for having restarted,
\* and a returned response is whole.
C27_RestartsUnbounded ==
    /\ status.exc # "RecursionError"
    /\ StatusResponseWhole

\* C27.  An AuthenticationFailure restarts the request by a nested call of
\* the handler, so the attempts are bounded by the recursion limit: beyond
\* it the handler raises RecursionError; a returned response is whole and
\* comes from the one attempt that met no AuthenticationFailure.
C27_RestartsToRecursionLimit ==
    /\ status.depth <= MaxDepth
    /\ status.exc = "RecursionError" => status.pc = "raised" /\ status.depth = MaxDepth
    /\ StatusResponseWhole

\* the second attempt returned the metrics of two providers after the first
\* attempt had failed
C27_Witness ==
    /\ status.pc = "returned"
    /\ status.depth = 2
    /\ status.appliances = <<s_dp2, s_dp1>>
    /\ status.providers = <<s_mem, s_cpu>>
    /\ status.response[s_cpu] = <<Metric(s_dp2, s_cpu, 2), Metric(s_dp1, s_cpu, 2)>>


(***************************************************************************)
(* mast/logging/__init__.py: make_logger, called any number of times, one  *)
(* call after the other.                                                   *)
(***************************************************************************)
MaxCalls == 3

\* logging.DEBUG, logging.INFO, logging.WARNING
Levels == {10, 20, 30}

\* lines 193-201: the file handler with its formatter, level and filter
Handler(level) ==
    [level |-> level, formatter |-> "_format", filters |-> <<"RedactingFilter">>]

\* make_logger without the test of lines 172-174
make_logger_always_adds(logger, level, propagate) ==
    [level |-> level,
     handlers |-> Append(logger.handlers, Handler(level)),
     propagate |-> propagate]

\* lines 171-205: the logger make_logger returns, given the one getLogger
\* found
make_logger(logger, level, propagate) ==
    IF logger.handlers # << >> /\ Len(logger.handlers) >= 1 THEN logger
    ELSE [level |-> level,
          handlers |-> Append(logger.handlers, Handler(level)),
          propagate |-> propagate]

MakeLogger ==
    /\ \E n \in LoggerNames, level \in Levels, propagate \in BOOLEAN :
          /\ loggers.calls[n] < MaxCalls
          /\ loggers' =
                [registry |-> [loggers.registry EXCEPT
                                  ![n] = make_logger(loggers.registry[n], level, propagate)],
                 calls |-> [loggers.calls EXCEPT ![n] = loggers.calls[n] + 1],
                 last |-> [name |-> n, level |-> level, propagate |-> propagate]]
    /\ UNCHANGED <<requestVars, threadVars, codec, status, build>>

LoggerNext == MakeLogger

SpecLogger == Init /\ [][LoggerNext]_vars

(***************************************************************************)
(* C28.  After one or more make_logger calls of a name, the logger of the  *)
(* name has exactly one handler, which carries one RedactingFilter, and    *)
(* the level the call that attached the handler gave to both: no later     *)
(* call adds a handler or changes the level.                               *)
(***************************************************************************)
C28_OneHandler ==
    \A n \in LoggerNames :
        LET logger == loggers.registry[n]
        IN IF loggers.calls[n] = 0 THEN logger = NewLogger
           ELSE /\ Len(logger.handlers) = 1
                /\ logger.handlers[1].filters = <<"RedactingFilter">>
                /\ logger.level = logger.handlers[1].level
                /\ logger.level \in Levels

\* a third call, asking for another level, left the logger as the first
\* call made it
C28_Witness ==
    /\ loggers.calls["mast"] = 3
    /\ loggers.last = [name |-> "mast", level |-> 30, propagate |-> FALSE]
    /\ loggers.registry["mast"].level = 10
    /\ Len(loggers.registry["mast"].handlers) = 1


(***************************************************************************)
(* C29.  A GET form request is answered without calling the command and    *)
(* without writing a file, a history log or a staged download: where a     *)
(* command was called or such an artifact exists, the request was a POST.  *)
(***************************************************************************)
C29_GetHasNoEffect ==
    /\ method = "GET" =>
          /\ pc \in {"done", "raised"}
          /\ calls = << >>
          /\ logs = {}
          /\ staged = {}
          /\ files = {s_evil}
    /\ (calls # << >> \/ logs # {} \/ staged # {}) => method = "POST"

\* the form of cert_audit was returned and nothing else happened
C29_Witness ==
    /\ FormReturned
    /\ name = s_cert_audit
    /\ response.fields # << >>
    /\ calls = << >>
    /\ logs = {}
    /\ staged = {}


(***************************************************************************)
(* build.py: the module body, from the platform test to the archive.       *)
(***************************************************************************)
\* ERRORS, lines 13-17
UNSUPPORTED_PLATFORM == 1
AMBIGUOUS_INSTALL == 2
HASH_MISMATCH == 3

\* sys.platform
Platforms == {"linux", "win32", "darwin", "freebsd13"}
\* the assets of the release that can pass the filters of lines 137-169
AssetNames == {"cpython.tar.gz", "cpython.tar.gz.sha256", "cpython-b.tar.gz",
               "cpython-b.tar.gz.sha256"}
IsHashName(n) == n \in {"cpython.tar.gz.sha256", "cpython-b.tar.gz.sha256"}

\* the lists of up to three of them, without a repetition
ReleaseNameLists ==
    {names \in UNION {[1..n -> AssetNames] : n \in 0..3} :
        \A i \in 1..Len(names), j \in 1..Len(names) : i # j => names[i] # names[j]}

\* what the release server sends for the release file
ReleaseContents == {"published", "altered"}
\* get_file_sha256, lines 82-91: the hex digest of a file's bytes
get_file_sha256(content) ==
    IF content = "published" THEN <<"a","1">> ELSE <<"b","2">>
\* what it sends for the hash file
HashTexts ==
    { <<"a","1">>, <<"a","1","x0A">>, <<"b","2">>, <<"a","1"," "," ","c","p","y">>, << >> }

Whitespace == {" ", "x09", "x0A", "x0B", "x0C", "x0D"}
RECURSIVE lstrip(_)
lstrip(string) ==
    IF string # << >> /\ Head(string) \in Whitespace THEN lstrip(Tail(string))
    ELSE string
RECURSIVE rstrip(_)
rstrip(string) ==
    IF string # << >> /\ string[Len(string)] \in Whitespace
    THEN rstrip(SubSeq(string, 1, Len(string) - 1))
    ELSE string
\* str.strip()
strip(string) == lstrip(rstrip(string))

\* the last name of the list that satisfies is_hash, "" when none does
LastNamed(names, hash) ==
    LET at == {i \in 1..Len(names) : IsHashName(names[i]) = hash}
    IN IF at = {} THEN "" ELSE names[CHOOSE i \in at : \A j \in at : j <= i]

\* sys.exit(code)
BuildExit(code) == build' = [build EXCEPT !.pc = "exited", !.exit = code]

\* lines 93-113: the platform
BuildPlatform ==
    /\ build.pc = "start"
    /\ \E p \in Platforms :
          IF p \in {"linux", "win32", "darwin"}
          THEN build' = [build EXCEPT !.pc = "filter", !.platform = p]
          ELSE build' = [build EXCEPT !.pc = "exited", !.platform = p,
                                      !.exit = UNSUPPORTED_PLATFORM]
    /\ UNCHANGED <<requestVars, threadVars, codec, status, loggers>>

\* the test of line 172 with >= in the place of >
Ambiguous_two_or_more(release_names) == Len(release_names) >= 2

\* line 172
Ambiguous(release_names) == Len(release_names) > 2

\* lines 117-173: the assets are listed and filtered; more than two is
\* ambiguous
BuildFilter ==
    /\ build.pc = "filter"
    /\ \E names \in ReleaseNameLists :
          IF Ambiguous(names)
          THEN build' = [build EXCEPT !.pc = "exited", !.release_names = names,
                                      !.exit = AMBIGUOUS_INSTALL]
          ELSE build' = [build EXCEPT !.pc = "find", !.release_names = names]
    /\ UNCHANGED <<requestVars, threadVars, codec, status, loggers>>

\* lines 176-195: the hash file and the release file among the names; a
\* name that was never assigned is a NameError at line 182 or 183
BuildFind ==
    /\ build.pc = "find"
    /\ LET hash_file == LastNamed(build.release_names, TRUE)
           release_file == LastNamed(build.release_names, FALSE)
       IN IF hash_file = "" \/ release_file = ""
          THEN build' = [build EXCEPT !.pc = "raised", !.exc = "NameError"]
          ELSE build' = [build EXCEPT !.pc = "download", !.hash_file = hash_file,
                                      !.release_file = release_file]
    /\ UNCHANGED <<requestVars, threadVars, codec, status, loggers>>

\* lines 197-221: both files are downloaded into the build directory
BuildDownload ==
    /\ build.pc = "download"
    /\ \E text \in HashTexts, content \in ReleaseContents :
          build' = [build EXCEPT !.pc = "verify", !.hash_text = text, !.release = content]
    /\ UNCHANGED <<requestVars, threadVars, codec, status, loggers>>

\* the comparison of line 225 left out
HashMismatch_never(hash_hex, release_file_sha256) == FALSE

\* line 225
HashMismatch(hash_hex, release_file_sha256) == hash_hex # release_file_sha256

\* lines 208 and 223-228: the digest of the release file against the
\* stripped text of the hash file
BuildVerify ==
    /\ build.pc = "verify"
    /\ IF HashMismatch(strip(build.hash_text), get_file_sha256(build.release))
       THEN BuildExit(HASH_MISMATCH)
       ELSE build' = [build EXCEPT !.pc = "unpack"]
    /\ UNCHANGED <<requestVars, threadVars, codec, status, loggers>>

\* lines 230-241: shutil.unpack_archive
BuildUnpack ==
    /\ build.pc = "unpack"
    /\ build' = [build EXCEPT !.pc = "install", !.unpacked = TRUE]
    /\ UNCHANGED <<requestVars, threadVars, codec, status, loggers>>

\* lines 243-290: pip installs into the unpacked release, the files are
\* copied and the archive is made
BuildInstall ==
    /\ build.pc = "install"
    /\ build' = [build EXCEPT !.pc = "done", !.installed = TRUE]
    /\ UNCHANGED <<requestVars, threadVars, codec, status, loggers>>

BuildNext ==
    \/ BuildPlatform
    \/ BuildFilter
    \/ BuildFind
    \/ BuildDownload
    \/ BuildVerify
    \/ BuildUnpack
    \/ BuildInstall

SpecBuild == Init /\ [][BuildNext]_vars

(***************************************************************************)
(* C30.  The release is unpacked and installed only when the digest of the *)
(* downloaded release file equals the text of the downloaded hash file;    *)
(* on a mismatch the script exits with code 3 with nothing unpacked, and   *)
(* with more than two assets left by the filters it exits with code 2.     *)
(***************************************************************************)
\* the script has compared the digest
Verified == build.pc \in {"unpack", "install", "done"} \/ build.exit = HASH_MISMATCH

C30_UnpackAfterVerify ==
    /\ (build.unpacked \/ build.installed) =>
          get_file_sha256(build.release) = strip(build.hash_text)
    /\ build.installed => build.unpacked
    /\ (Verified /\ get_file_sha256(build.release) # strip(build.hash_text)) =>
          /\ build.pc = "exited"
          /\ build.exit = 3
          /\ ~build.unpacked
          /\ ~build.installed
    /\ (build.pc # "start" /\ build.pc # "filter" /\ Len(build.release_names) > 2) =>
          /\ build.pc = "exited"
          /\ build.exit = 2
          /\ build.release = ""
    /\ build.exit = 2 => Len(build.release_names) > 2

\* an altered release file was refused
C30_Witness ==
    /\ build.pc = "exited"
    /\ build.exit = 3
    /\ build.release = "altered"
    /\ build.hash_text = <<"a","1","x0A">>
    /\ ~build.unpacked

=============================================================================
